---------------------------- MODULE Spec2Model ----------------------------
(***************************************************************************)
(* A model of praxis-cli's validation cache (src/src/validator/            *)
(* cache-manager.ts) and batch validation orchestrator                     *)
(* (src/unnamed/part_009, the current batch-validator.ts).                 *)
(*                                                                         *)
(* Texts are sequences of one-character tokens, files are sequences of     *)
(* tokens, JSON.stringify / JSON.parse are a serialiser and a recursive    *)
(* descent parser over those tokens, paths are records of segments.        *)
(***************************************************************************)
EXTENDS Integers, Sequences, FiniteSets, TLC

VARIABLES
    files,      \* the cache directory: the cache paths that exist -> their bytes
    last,       \* the last CacheManager call: its arguments, what it found and returned
    cdir,       \* concurrent writers: the inode the cache path names, 0 when it names none
    inodes,     \* concurrent writers: inode -> bytes
    wr,         \* concurrent writers: invocation -> [pc, fd, entry]
    commits,    \* concurrent writers: the invocations in the order their bytes were written
    tree,       \* the project's documents: [doc: document -> text, spec: directory -> README text]
    cfg,        \* BatchValidator options: [failFast, useCache, sources]
    bv,         \* the BatchValidator: results, stoppedEarly, cacheStats and where its run is
    hist,       \* what the validations so far did: the last one, and per document the
                \* texts and the verdict of its last validation that gave a verdict
    disk,       \* orphan detection: the documents on disk -> the fingerprint of their text
    owner,      \* orphan detection: cache path -> the document its entry was written for
    calls,      \* cachePathFor on a pair of paths: [mgr, a, b, out]
    watcher,    \* watch mode: the clock, the timers of the watcher and its log
    summ,       \* summary() on a list of results: [results, out]
    cli,        \* a `praxis validate` process: [mode, results, exit]
    ob,         \* an OutputBuilder: its fields, the add calls made, and what build() gave
    rc,         \* a RoleCompiler run: the project files, the compiler's inputs and outputs
    globs,      \* GlobExpander.expand on a project: [fs, pattern, out]
    prints,     \* contentHash on two pairs of texts: [d1, s1, d2, s2, h1, h2, again]
    race        \* a read next to a write of one entry: the reader's position and result

cacheVars == <<files, last>>
concVars == <<cdir, inodes, wr, commits>>
batchVars == <<tree, cfg, bv, hist>>
pathVars == <<disk, owner, calls>>
compVars == <<watcher, summ, cli, ob, rc>>
restVars == <<globs, prints, race>>
vars == <<files, last, cdir, inodes, wr, commits, tree, cfg, bv, hist, disk, owner, calls, watcher, summ, cli, ob, rc, globs, prints, race>>

-----------------------------------------------------------------------------
(* Bounds of the model *)

\* most issue strings a warning verdict drawn as an input lists (an error verdict
\* lists one more)
MaxIssues == 1

\* most validateAll / validateType runs of one BatchValidator
MaxRuns == 2

\* most edits made to the documents and READMEs of the project
MaxEdits == 2

\* the debounce interval of the watcher, in clock ticks
DebounceTicks == 2

\* the last clock tick of a watch session
MaxTime == 6

\* most file-change events of a watch session
MaxEvents == 4

\* most results of a run that summary() is applied to
MaxResults == 3

\* most add calls made on an OutputBuilder before build()
MaxAdds == 3

\* the compiles and edits of one run of the compiler model
MaxOps == 2

\* the longest text given to contentHash, in characters
MaxText == 2

-----------------------------------------------------------------------------
(* Texts *)

\* Free text is made of one-character tokens: "a" a plain character, "dq" the
\* double quote, "sq" the single quote, "bs" the backslash, "ctl" a control
\* character (\x01) and "nl" the newline.

RECURSIVE Flatten(_)
Flatten(ss) == IF ss = <<>> THEN <<>> ELSE Head(ss) \o Flatten(Tail(ss))

MapSeq(Op(_), s) == [i \in 1..Len(s) |-> Op(s[i])]

\* sanitizeText leaving the double quote in place
sanitizeText_KeepQuotes(text) ==
    SelectSeq(text, LAMBDA c : c # "ctl")

\* sanitizeText: strip [\x00-\x08\x0B\x0C\x0E-\x1F\x7F] (newline, CR and tab stay),
\* then replace every double quote by a single quote
sanitizeText(text) ==
    LET stripped == SelectSeq(text, LAMBDA c : c # "ctl")
    IN  [i \in 1..Len(stripped) |-> IF stripped[i] = "dq" THEN "sq" ELSE stripped[i]]

-----------------------------------------------------------------------------
(* JSON: serialising and parsing a cache entry *)

CACHE_VERSION == <<"1.0">>

NoSeverity == "none"

\* JSON.stringify of one character of a string
EscapeChar(c) ==
    CASE c = "dq"  -> <<"bs", "dq">>
      [] c = "bs"  -> <<"bs", "bs">>
      [] c = "nl"  -> <<"bs", "n">>
      [] c = "ctl" -> <<"bs", "u0001">>
      [] OTHER     -> <<c>>

\* JSON.stringify of a string: quoted, with the JSON escapes
JsonString(s) == <<"dq">> \o Flatten(MapSeq(EscapeChar, s)) \o <<"dq">>

RECURSIVE JsonStringList(_)
JsonStringList(ss) ==
    IF ss = <<>> THEN <<>>
    ELSE JsonString(Head(ss))
         \o (IF Tail(ss) = <<>> THEN <<>> ELSE <<",">> \o JsonStringList(Tail(ss)))

\* JSON.stringify(cacheData, null, 2): the keys in the order the object literal
\* gives them; an undefined severity is left out
JsonStringify(e) ==
    <<"{", "version:">> \o JsonString(e.version)
    \o <<",", "cached_at:">> \o JsonString(e.cached_at)
    \o <<",", "content_hash:">> \o JsonString(e.content_hash)
    \o <<",", "document:", "{", "path:">> \o JsonString(e.document.path)
    \o <<",", "type:">> \o JsonString(e.document.type)
    \o <<",", "spec_path:">> \o JsonString(e.document.spec_path)
    \o <<"}", ",", "result:", "{", "compliant:">>
    \o <<IF e.result.compliant THEN "true" ELSE "false">>
    \o <<",", "issues:", "[">> \o JsonStringList(e.result.issues) \o <<"]">>
    \o <<",", "reason:">> \o JsonString(e.result.reason)
    \o (IF e.result.severity = NoSeverity THEN <<>>
        ELSE <<",", "severity:">> \o JsonString(<<e.result.severity>>))
    \o <<"}", "}">>

\* position 0 stands for "no parse"
NoParse == [pos |-> 0, val |-> <<>>]

\* the tokens toks stand at position i of b: the position after them, else 0
LitAt(b, i, toks) ==
    IF i = 0 \/ i + Len(toks) - 1 > Len(b) THEN 0
    ELSE IF SubSeq(b, i, i + Len(toks) - 1) = toks THEN i + Len(toks) ELSE 0

\* the body of a JSON string from position j on: unescaped characters up to the
\* closing quote; a raw control character or newline, a bad escape or the end of
\* input is a syntax error
RECURSIVE ScanString(_, _, _)
ScanString(b, j, acc) ==
    IF j > Len(b) THEN NoParse
    ELSE CASE b[j] = "dq" -> [pos |-> j + 1, val |-> acc]
           [] b[j] = "bs" ->
                IF j + 1 > Len(b) THEN NoParse
                ELSE CASE b[j + 1] = "dq"    -> ScanString(b, j + 2, Append(acc, "dq"))
                       [] b[j + 1] = "bs"    -> ScanString(b, j + 2, Append(acc, "bs"))
                       [] b[j + 1] = "n"     -> ScanString(b, j + 2, Append(acc, "nl"))
                       [] b[j + 1] = "u0001" -> ScanString(b, j + 2, Append(acc, "ctl"))
                       [] OTHER              -> NoParse
           [] b[j] \in {"ctl", "nl"} -> NoParse
           [] OTHER -> ScanString(b, j + 1, Append(acc, b[j]))

StringAt(b, i) ==
    IF i = 0 \/ i > Len(b) THEN NoParse
    ELSE IF b[i] = "dq" THEN ScanString(b, i + 1, <<>>) ELSE NoParse

BoolAt(b, i) ==
    IF i = 0 \/ i > Len(b) THEN [pos |-> 0, val |-> FALSE]
    ELSE CASE b[i] = "true"  -> [pos |-> i + 1, val |-> TRUE]
           [] b[i] = "false" -> [pos |-> i + 1, val |-> FALSE]
           [] OTHER          -> [pos |-> 0, val |-> FALSE]

\* the strings of an array after its "[", up to and including its "]"
RECURSIVE StringListAt(_, _, _)
StringListAt(b, i, acc) ==
    IF i = 0 \/ i > Len(b) THEN NoParse
    ELSE IF b[i] = "]" /\ acc = <<>> THEN [pos |-> i + 1, val |-> acc]
    ELSE LET s == StringAt(b, i)
         IN  IF s.pos = 0 \/ s.pos > Len(b) THEN NoParse
             ELSE CASE b[s.pos] = "]" -> [pos |-> s.pos + 1, val |-> Append(acc, s.val)]
                    [] b[s.pos] = "," -> StringListAt(b, s.pos + 1, Append(acc, s.val))
                    [] OTHER          -> NoParse

\* JSON.parse(raw): "fail" is a SyntaxError; "null" and "object" are JSON values
\* that are no cache entry; "entry" carries the parsed CacheFileData
JsonParse(b) ==
    IF b = <<"null">> THEN [kind |-> "null"]
    ELSE IF b = <<"{", "}">> THEN [kind |-> "object"]
    ELSE
    LET v   == StringAt(b, LitAt(b, 1, <<"{", "version:">>))
        t   == StringAt(b, LitAt(b, v.pos, <<",", "cached_at:">>))
        h   == StringAt(b, LitAt(b, t.pos, <<",", "content_hash:">>))
        dp  == StringAt(b, LitAt(b, h.pos, <<",", "document:", "{", "path:">>))
        dt  == StringAt(b, LitAt(b, dp.pos, <<",", "type:">>))
        ds  == StringAt(b, LitAt(b, dt.pos, <<",", "spec_path:">>))
        c   == BoolAt(b, LitAt(b, ds.pos, <<"}", ",", "result:", "{", "compliant:">>))
        is  == StringListAt(b, LitAt(b, c.pos, <<",", "issues:", "[">>), <<>>)
        r   == StringAt(b, LitAt(b, is.pos, <<",", "reason:">>))
        sk  == LitAt(b, r.pos, <<",", "severity:">>)
        sv  == IF sk = 0 THEN [pos |-> r.pos, val |-> <<NoSeverity>>] ELSE StringAt(b, sk)
        end == LitAt(b, sv.pos, <<"}", "}">>)
    IN  IF end = Len(b) + 1 /\ Len(sv.val) = 1
        THEN [kind |-> "entry",
              data |-> [version |-> v.val, cached_at |-> t.val, content_hash |-> h.val,
                        document |-> [path |-> dp.val, type |-> dt.val, spec_path |-> ds.val],
                        result |-> [compliant |-> c.val, issues |-> is.val,
                                    reason |-> r.val, severity |-> sv.val[1]]]]
        ELSE [kind |-> "fail"]


-----------------------------------------------------------------------------
(* Paths: [abs, segs, ext]; the last segment is the file's name without ext *)

Path(abs, segs, ext) == [abs |-> abs, segs |-> segs, ext |-> ext]

NoRoot == [abs |-> FALSE, segs |-> <<>>, ext |-> "none"]

IsPrefix(s, t) == Len(s) <= Len(t) /\ SubSeq(t, 1, Len(s)) = s

\* the characters of a path, one token per segment
PathText(p) ==
    (IF p.abs THEN <<"/">> ELSE <<>>) \o p.segs \o (IF p.ext = "" THEN <<>> ELSE <<p.ext>>)

\* process.cwd(): commands run in the project root
Cwd == Path(TRUE, <<"p">>, "")

\* root = projectRoot ?? process.cwd(); join(root, ".praxis", "cache", "validation")
defaultCacheRoot(projectRoot) ==
    LET root == IF projectRoot = NoRoot THEN Cwd ELSE projectRoot
    IN  Path(root.abs, root.segs \o <<".praxis", "cache", "validation">>, "")

\* new CacheManager(cacheRoot, projectRoot)
CacheManager(cacheRoot, projectRoot) ==
    [cacheRoot |-> IF cacheRoot = NoRoot THEN defaultCacheRoot(projectRoot) ELSE cacheRoot,
     projectRoot |-> projectRoot]

\* cachePathFor: strip "<projectRoot>/" from the front of the path when it is there,
\* else take the path as it is; dirname, basename(.., ".md") (the paths of the
\* model end in ".md" or have no extension, and both give the bare name), and
\* join(cacheRoot, ..), which drops a leading "/" of the directory part
cachePathFor(mgr, documentPath) ==
    LET root == mgr.projectRoot
        strips == /\ root # NoRoot
                  /\ documentPath.abs = root.abs
                  /\ IsPrefix(root.segs, documentPath.segs)
                  /\ Len(documentPath.segs) > Len(root.segs)
        relativeSegs == IF strips
                        THEN SubSeq(documentPath.segs, Len(root.segs) + 1, Len(documentPath.segs))
                        ELSE documentPath.segs
    IN  Path(mgr.cacheRoot.abs, mgr.cacheRoot.segs \o relativeSegs, ".json")

-----------------------------------------------------------------------------
(* The cache directory: a function from the cache paths that exist to their bytes *)

NoFiles == [cp \in {} |-> <<>>]

NoFile == [exists |-> FALSE]

FileAt(fs, cp) == IF cp \in DOMAIN fs THEN [exists |-> TRUE, bytes |-> fs[cp]] ELSE NoFile

PutFile(fs, cp, bytes) == [c \in DOMAIN fs \cup {cp} |-> IF c = cp THEN bytes ELSE fs[c]]

\* unlinkSync of a path that exists
Unlink(fs, cp) == [c \in DOMAIN fs \ {cp} |-> fs[c]]

Absent == [found |-> FALSE]

Found(v) == [found |-> TRUE, value |-> v]

-----------------------------------------------------------------------------
(* CacheManager.write *)

\* what the environment does to one write call: it succeeds, or mkdirSync throws,
\* or writeFileSync throws before it opened the file ("open"), or after it
\* truncated the file and wrote the first k tokens ("write")
IoPoints == {"ok", "mkdir", "open", "write"}

\* the result as stored: reason and every issue sanitized
SanitizedResult(result) ==
    [result EXCEPT !.reason = sanitizeText(@),
                   !.issues = MapSeq(sanitizeText, @)]

\* the cache file data of a write call
CacheData(documentPath, contentHash, result, metadata, now) ==
    [version |-> CACHE_VERSION,
     cached_at |-> <<now>>,
     content_hash |-> contentHash,
     document |-> [path |-> PathText(documentPath),
                   type |-> metadata.documentType,
                   spec_path |-> metadata.specPath],
     result |-> SanitizedResult(result)]

\* the catch block of write without its cleanup
CleanupFailedWrite_Skip(fs, cachePath) == fs

\* the catch block of write: if (existsSync(cachePath)) unlinkSync(cachePath)
CleanupFailedWrite(fs, cachePath) ==
    IF cachePath \in DOMAIN fs THEN Unlink(fs, cachePath) ELSE fs

\* the try block of write: [fs, threw]
WriteTry(fs, cachePath, json, io) ==
    IF io.point = "mkdir" THEN [fs |-> fs, threw |-> TRUE]
    ELSE IF JsonParse(json).kind = "fail" THEN [fs |-> fs, threw |-> TRUE]
    ELSE CASE io.point = "open"  -> [fs |-> fs, threw |-> TRUE]
           [] io.point = "write" -> [fs |-> PutFile(fs, cachePath, SubSeq(json, 1, io.k)),
                                     threw |-> TRUE]
           [] OTHER              -> [fs |-> PutFile(fs, cachePath, json), threw |-> FALSE]

\* write({documentPath, contentHash, result, metadata}): the cache directory after it
write(fs, mgr, documentPath, contentHash, result, metadata, now, io) ==
    LET cachePath == cachePathFor(mgr, documentPath)
        json == JsonStringify(CacheData(documentPath, contentHash, result, metadata, now))
        try == WriteTry(fs, cachePath, json, io)
    IN  IF try.threw THEN CleanupFailedWrite(try.fs, cachePath) ELSE try.fs

-----------------------------------------------------------------------------
(* CacheManager.read and readRaw *)

\* read that treats a stale entry like a corrupt one
ReadOutcome_DeleteStale(file, contentHash) ==
    IF ~file.exists THEN [ret |-> Absent, unlink |-> FALSE]
    ELSE LET cached == JsonParse(file.bytes)
         IN  CASE cached.kind \in {"fail", "null"} -> [ret |-> Absent, unlink |-> TRUE]
               [] cached.kind = "object" -> [ret |-> Absent, unlink |-> FALSE]
               [] OTHER ->
                    IF cached.data.version # CACHE_VERSION
                    THEN [ret |-> Absent, unlink |-> FALSE]
                    ELSE IF cached.data.content_hash # contentHash
                    THEN [ret |-> Absent, unlink |-> TRUE]
                    ELSE [ret |-> Found(cached.data.result), unlink |-> FALSE]

\* read that leaves a corrupt file in place, as readRaw does
ReadOutcome_NoHeal(file, contentHash) ==
    IF ~file.exists THEN [ret |-> Absent, unlink |-> FALSE]
    ELSE LET cached == JsonParse(file.bytes)
         IN  CASE cached.kind \in {"fail", "null", "object"} -> [ret |-> Absent, unlink |-> FALSE]
               [] OTHER ->
                    IF cached.data.version # CACHE_VERSION
                    THEN [ret |-> Absent, unlink |-> FALSE]
                    ELSE IF cached.data.content_hash # contentHash
                    THEN [ret |-> Absent, unlink |-> FALSE]
                    ELSE [ret |-> Found(cached.data.result), unlink |-> FALSE]

\* read on the state of the cache file: what it returns and whether its catch
\* block unlinks the file. JSON.parse throwing, or `cached.version` on a parsed
\* null, lands in the catch block; an object without a version, a version or a
\* hash mismatch return null and leave the file
ReadOutcome(file, contentHash) ==
    IF ~file.exists THEN [ret |-> Absent, unlink |-> FALSE]
    ELSE LET cached == JsonParse(file.bytes)
         IN  CASE cached.kind \in {"fail", "null"} -> [ret |-> Absent, unlink |-> TRUE]
               [] cached.kind = "object" -> [ret |-> Absent, unlink |-> FALSE]
               [] OTHER ->
                    IF cached.data.version # CACHE_VERSION
                    THEN [ret |-> Absent, unlink |-> FALSE]
                    ELSE IF cached.data.content_hash # contentHash
                    THEN [ret |-> Absent, unlink |-> FALSE]
                    ELSE [ret |-> Found(cached.data.result), unlink |-> FALSE]

\* read({documentPath, contentHash}): [ret, fs]
read(fs, mgr, documentPath, contentHash) ==
    LET cachePath == cachePathFor(mgr, documentPath)
        out == ReadOutcome(FileAt(fs, cachePath), contentHash)
    IN  [ret |-> out.ret,
         fs |-> IF out.unlink /\ cachePath \in DOMAIN fs THEN Unlink(fs, cachePath) ELSE fs]

\* readRaw({documentPath}): the whole entry, whatever its hash; never writes
readRaw(fs, mgr, documentPath) ==
    LET file == FileAt(fs, cachePathFor(mgr, documentPath))
    IN  IF ~file.exists THEN Absent
        ELSE LET cached == JsonParse(file.bytes)
             IN  CASE cached.kind \in {"fail", "null", "object"} -> Absent
                   [] OTHER -> IF cached.data.version # CACHE_VERSION THEN Absent
                               ELSE Found(cached.data)

\* a catch block that unlinks the file, as the one of read does
RawCatch_Unlink(fs, cachePath) ==
    IF cachePath \in DOMAIN fs THEN Unlink(fs, cachePath) ELSE fs

\* the catch block of readRaw: `return null`, nothing else
RawCatch(fs, cachePath) == fs

\* the cache directory after readRaw: existsSync and readFileSync change
\* nothing, and JSON.parse throwing, or `cached.version` on a parsed null, lands
\* in the catch block
readRawFs(fs, mgr, documentPath) ==
    LET cachePath == cachePathFor(mgr, documentPath)
        file == FileAt(fs, cachePath)
    IN  IF ~file.exists THEN fs
        ELSE IF JsonParse(file.bytes).kind \in {"fail", "null"}
             THEN RawCatch(fs, cachePath)
             ELSE fs


-----------------------------------------------------------------------------
(* Inputs of the cache API model *)

ProjectRoot == Path(TRUE, <<"p">>, "")

\* new CacheManager(undefined, paths.root), as every command builds it
Mgr == CacheManager(NoRoot, ProjectRoot)

RolesReadme == Path(TRUE, <<"p", "roles", "README">>, ".md")

CacheDocs == {Path(TRUE, <<"p", "roles", "a">>, ".md"),
              Path(TRUE, <<"p", "roles", "b">>, ".md")}

Hashes == {<<"h1">>, <<"h2">>}

\* the issue strings and reasons verdicts are made of: quotes, control
\* characters, newlines and backslashes all occur
IssuePool == << <<"a", "dq", "ctl">>, <<"nl", "bs">>, <<"a">> >>

ReasonPool == << <<"a">>, <<"dq", "ctl", "nl", "bs">>, <<"sq", "a", "a">> >>

PoolAt(pool, i) == pool[((i - 1) % Len(pool)) + 1]

IssueList(n) == [i \in 1..n |-> PoolAt(IssuePool, i)]

\* the three kinds of verdict: compliant without issues, minor issues (a warning
\* with 1..MaxIssues issue strings), major issues (an error with one more)
Verdicts ==
    {[compliant |-> TRUE, issues |-> <<>>, reason |-> PoolAt(ReasonPool, 1),
      severity |-> NoSeverity]}
    \cup {[compliant |-> FALSE, issues |-> IssueList(n), reason |-> PoolAt(ReasonPool, n + 1),
           severity |-> "warning"] : n \in 1..MaxIssues}
    \cup {[compliant |-> FALSE, issues |-> IssueList(n + 1), reason |-> PoolAt(ReasonPool, n + 2),
           severity |-> "error"] : n \in 1..MaxIssues}

Metadata == [documentType |-> <<"roles">>, specPath |-> PathText(RolesReadme)]

\* new Date().toISOString()
Now == "t1"

\* the ways one write call can go: io.k is the number of tokens writeFileSync
\* wrote before it threw
IoOutcomes(json) ==
    {[point |-> pt, k |-> 0] : pt \in {"ok", "mkdir", "open"}}
    \cup {[point |-> "write", k |-> Len(json) \div 2]}

\* bytes a test or another program puts at a cache path: garbage, nothing, JSON
\* that is no entry, and an entry of another format version
TamperBytes ==
    {<<"x", "{", "{">>, <<>>, <<"null">>, <<"{", "}">>,
     JsonStringify([CacheData(RolesReadme, <<"h1">>,
                              [compliant |-> TRUE, issues |-> <<>>, reason |-> <<"a">>,
                               severity |-> NoSeverity],
                              Metadata, Now) EXCEPT !.version = <<"0.9">>])}

NoCall == [op |-> "none"]

-----------------------------------------------------------------------------
(* The cache API, one call after another *)

CacheIdle == files = NoFiles /\ last = NoCall

ConcIdle == cdir = 0 /\ inodes = <<>> /\ wr = <<>> /\ commits = <<>>

BatchIdle == tree = <<>> /\ cfg = <<>> /\ bv = <<>> /\ hist = <<>>

PathIdle == disk = <<>> /\ owner = <<>> /\ calls = <<>>

RestIdle == globs = <<>> /\ prints = <<>> /\ race = <<>>

CompIdle == watcher = <<>> /\ summ = <<>> /\ cli = <<>> /\ ob = <<>> /\ rc = <<>>

InitCache ==
    /\ RestIdle
    /\ CompIdle
    /\ files = NoFiles
    /\ last = NoCall
    /\ ConcIdle
    /\ BatchIdle
    /\ PathIdle

Write(d, fp, r) ==
    /\ \E io \in IoOutcomes(JsonStringify(CacheData(d, fp, r, Metadata, Now))) :
        /\ files' = write(files, Mgr, d, fp, r, Metadata, Now, io)
        /\ last' = [op |-> "write", path |-> d, fp |-> fp, result |-> r,
                    ok |-> io.point = "ok"]
    /\ UNCHANGED <<restVars, compVars, concVars, batchVars, pathVars>>

Read(d, fp) ==
    /\ LET out == read(files, Mgr, d, fp)
       IN  /\ files' = out.fs
           /\ last' = [op |-> "read", path |-> d, fp |-> fp, ret |-> out.ret,
                       pre |-> FileAt(files, cachePathFor(Mgr, d)),
                       after |-> IF last.op = "write" THEN last ELSE NoCall]
    /\ UNCHANGED <<restVars, compVars, concVars, batchVars, pathVars>>

ReadRaw(d) ==
    /\ files' = readRawFs(files, Mgr, d)
    /\ last' = [op |-> "readRaw", path |-> d, ret |-> readRaw(files, Mgr, d),
                pre |-> FileAt(files, cachePathFor(Mgr, d)), before |-> files]
    /\ UNCHANGED <<restVars, compVars, concVars, batchVars, pathVars>>

\* writeFileSync(cachePath, bytes) from outside the cache manager
Tamper(d, bytes) ==
    /\ files' = PutFile(files, cachePathFor(Mgr, d), bytes)
    /\ last' = [op |-> "tamper", path |-> d]
    /\ UNCHANGED <<restVars, compVars, concVars, batchVars, pathVars>>

WriteCall == \E d \in CacheDocs, fp \in Hashes, r \in Verdicts : Write(d, fp, r)
ReadCall == \E d \in CacheDocs, fp \in Hashes : Read(d, fp)
ReadRawCall == \E d \in CacheDocs : ReadRaw(d)
TamperCall == \E d \in CacheDocs, bytes \in TamperBytes : Tamper(d, bytes)

NextCache == WriteCall \/ ReadCall \/ ReadRawCall

NextTamper == WriteCall \/ ReadCall \/ ReadRawCall \/ TamperCall

\* the cache API used by one process, from an empty cache
SpecCache == InitCache /\ [][NextCache]_vars

\* the same with cache files also written from outside
SpecTamper == InitCache /\ [][NextTamper]_vars


-----------------------------------------------------------------------------
(* Two invocations writing the entry of one document at the same time.      *)
(* writeFileSync(path, data) is open(path, O_WRONLY|O_CREAT|O_TRUNC), one   *)
(* write of the data at offset 0 of the opened file, and close; each is a   *)
(* step of its own, and so are mkdirSync and the stringify/parse check.     *)

Writers == {1, 2}

ConcDoc == Path(TRUE, <<"p", "roles", "a">>, ".md")

\* the serialized payload an invocation is about to write
WriterJson(w) == JsonStringify(CacheData(ConcDoc, wr[w].fp, wr[w].result, Metadata, Now))

WriteAtZero(old, data) ==
    IF Len(data) >= Len(old) THEN data
    ELSE data \o SubSeq(old, Len(data) + 1, Len(old))

\* the bytes at the document's cache path
ConcFile == IF cdir = 0 THEN NoFile ELSE [exists |-> TRUE, bytes |-> inodes[cdir]]

InitConc ==
    /\ RestIdle
    /\ CompIdle
    /\ CacheIdle
    /\ BatchIdle
    /\ PathIdle
    /\ cdir = 0
    /\ inodes = <<>>
    /\ commits = <<>>
    /\ wr \in [Writers -> {[pc |-> "start", fd |-> 0, fp |-> fp, result |-> r] :
                              fp \in Hashes, r \in Verdicts}]

\* mkdirSync(dirname(cachePath), {recursive: true})
WMkdir(w) ==
    /\ wr[w].pc = "start"
    /\ wr' = [wr EXCEPT ![w].pc = "mkdir"]
    /\ UNCHANGED <<restVars, compVars, cdir, inodes, commits, files, last, batchVars, pathVars>>

\* JSON.stringify and the JSON.parse check of the payload
WVerify(w) ==
    /\ wr[w].pc = "mkdir"
    /\ wr' = [wr EXCEPT ![w].pc =
                 IF JsonParse(WriterJson(w)).kind = "fail" THEN "done" ELSE "verified"]
    /\ UNCHANGED <<restVars, compVars, cdir, inodes, commits, files, last, batchVars, pathVars>>

\* writeFileSync, first half: open the path for writing, creating or truncating it
WOpen(w) ==
    /\ wr[w].pc = "verified"
    /\ IF cdir = 0
       THEN /\ inodes' = Append(inodes, <<>>)
            /\ cdir' = Len(inodes) + 1
            /\ wr' = [wr EXCEPT ![w].pc = "open", ![w].fd = Len(inodes) + 1]
       ELSE /\ inodes' = [inodes EXCEPT ![cdir] = <<>>]
            /\ cdir' = cdir
            /\ wr' = [wr EXCEPT ![w].pc = "open", ![w].fd = cdir]
    /\ UNCHANGED <<restVars, compVars, commits, files, last, batchVars, pathVars>>

\* writeFileSync, second half: write the payload at offset 0 and close
WWrite(w) ==
    /\ wr[w].pc = "open"
    /\ inodes' = [inodes EXCEPT ![wr[w].fd] = WriteAtZero(@, WriterJson(w))]
    /\ commits' = Append(commits, w)
    /\ wr' = [wr EXCEPT ![w].pc = "done"]
    /\ UNCHANGED <<restVars, compVars, cdir, files, last, batchVars, pathVars>>

NextConc == \E w \in Writers : WMkdir(w) \/ WVerify(w) \/ WOpen(w) \/ WWrite(w)

SpecConc == InitConc /\ [][NextConc]_vars

-----------------------------------------------------------------------------
(* One invocation reading the entry of a document while another writes it.  *)
(* read is existsSync, then readFileSync and JSON.parse, then on an         *)
(* exception unlinkSync of the path; each is a step of its own.             *)

RaceWriter == 1

\* the entry an earlier run left at the cache path
OldEntry ==
    JsonStringify(CacheData(ConcDoc, <<"h1">>,
                            [compliant |-> TRUE, issues |-> <<>>,
                             reason |-> PoolAt(ReasonPool, 1), severity |-> NoSeverity],
                            Metadata, Now))

InitRace ==
    /\ CompIdle
    /\ CacheIdle
    /\ BatchIdle
    /\ PathIdle
    /\ globs = <<>>
    /\ prints = <<>>
    /\ commits = <<>>
    /\ \/ cdir = 0 /\ inodes = <<>>
       \/ cdir = 1 /\ inodes = <<OldEntry>>
    /\ wr \in [{RaceWriter} -> {[pc |-> "start", fd |-> 0, fp |-> h, result |-> r] :
                                   h \in Hashes, r \in Verdicts}]
    /\ \E h \in Hashes :
           race = [pc |-> "start", fp |-> h, ret |-> Absent, unlinked |-> FALSE]

\* if (!existsSync(cachePath)) return null
RExists ==
    /\ race.pc = "start"
    /\ race' = [race EXCEPT !.pc = IF cdir = 0 THEN "done" ELSE "exists"]
    /\ UNCHANGED <<cacheVars, concVars, batchVars, pathVars, compVars, globs, prints>>

\* the try block of read: readFileSync, JSON.parse and the two comparisons; an
\* exception goes to the catch block
RRead ==
    /\ race.pc = "exists"
    /\ race' = IF ReadOutcome(ConcFile, race.fp).unlink \/ cdir = 0
               THEN [race EXCEPT !.pc = "catch"]
               ELSE [race EXCEPT !.pc = "done", !.ret = ReadOutcome(ConcFile, race.fp).ret]
    /\ UNCHANGED <<cacheVars, concVars, batchVars, pathVars, compVars, globs, prints>>

\* the catch block of read: unlinkSync(cachePath), return null
RUnlink ==
    /\ race.pc = "catch"
    /\ cdir' = 0
    /\ race' = [race EXCEPT !.pc = "done", !.unlinked = (cdir # 0)]
    /\ UNCHANGED <<cacheVars, inodes, wr, commits, batchVars, pathVars, compVars,
                   globs, prints>>

NextRace ==
    \/ WMkdir(RaceWriter) \/ WVerify(RaceWriter) \/ WOpen(RaceWriter) \/ WWrite(RaceWriter)
    \/ RExists \/ RRead \/ RUnlink

SpecRace == InitRace /\ [][NextRace]_vars

-----------------------------------------------------------------------------
(* The project of the batch model: /p with the directories roles, context and *)
(* context/conv; roles and context/conv hold a README.md                      *)

\* the directories below the project root, in the order a glob walks them
DirOrder == << <<"roles">>, <<"context">>, <<"context", "conv">> >>

\* fg.sync("*.md", {cwd: dir}): the names, without ".md", in listing order
Listing(dir) ==
    CASE dir = <<"roles">>           -> <<"README", "_t", "a">>
      [] dir = <<"context", "conv">> -> <<"README", "c">>
      [] OTHER                       -> <<>>

\* the names that start with "_"
UnderscoreNames == {"_t"}

\* name === "README.md" || name.startsWith("_")
IsSkippedName(name) == name = "README" \/ name \in UnderscoreNames

DocPath(dir, name) == Path(TRUE, ProjectRoot.segs \o dir \o <<name>>, ".md")

\* the documents a run validates, and the directories with a README
BatchDocs == {<< <<"roles">>, "a" >>, << <<"context", "conv">>, "c" >>}

DomainDirs == {<<"roles">>, <<"context", "conv">>}

DocTexts == {<<"a", "b">>, <<"a">>}

SpecTexts == {<<"c">>, <<"b", "c">>}

\* the `sources` of .praxis/config.json: the default shape, and one whose last
\* root lies inside the one before it
SourceConfigs == { << <<"roles">>, <<"context">> >>,
                   << <<"roles">>, <<"context">>, <<"context", "conv">> >> }

\* contentHash that digests the document text only
contentHash_DocumentOnly(documentContent, readmeContent) == documentContent

\* contentHash: the digest of documentContent + readmeContent; the digest is
\* taken to be collision-free, so it is its input
contentHash(documentContent, readmeContent) == documentContent \o readmeContent

-----------------------------------------------------------------------------
(* DocumentValidator.validate and the classifier *)

\* what the classifier call gives: a response that starts with Yes, Maybe or No,
\* one that starts with another word (a parse error), or an exception
ClassifierOutcomes == {"Yes", "Maybe", "No", "Other", "throw"}

\* the verdict parsed from a response by its first word
VerdictOf(token) ==
    CASE token = "Yes"   -> [compliant |-> TRUE, issues |-> <<>>,
                             reason |-> PoolAt(ReasonPool, 1), severity |-> NoSeverity]
      [] token = "Maybe" -> [compliant |-> FALSE, issues |-> IssueList(1),
                             reason |-> PoolAt(ReasonPool, 2), severity |-> "warning"]
      [] token = "No"    -> [compliant |-> FALSE, issues |-> IssueList(2),
                             reason |-> PoolAt(ReasonPool, 3), severity |-> "error"]

IoOk == [point |-> "ok", k |-> 0]

\* validate() from the cache lookup on: a hit gives the stored verdict; a miss
\* calls the classifier, parses the first word of its response and writes the
\* verdict to the cache
validateAfterLookup(cached, useCache, docPath, fp, specPath, type, outcome) ==
    IF cached.ret.found
    THEN [threw |-> FALSE, cacheHit |-> TRUE, classified |-> FALSE,
          result |-> cached.ret.value, fs |-> cached.fs]
    ELSE IF outcome \in {"Other", "throw"}
    THEN [threw |-> TRUE, cacheHit |-> FALSE, classified |-> TRUE,
          message |-> outcome, fs |-> cached.fs]
    ELSE [threw |-> FALSE, cacheHit |-> FALSE, classified |-> TRUE,
          result |-> VerdictOf(outcome),
          fs |-> IF useCache
                 THEN write(cached.fs, Mgr, docPath, fp, VerdictOf(outcome),
                            [documentType |-> type, specPath |-> PathText(specPath)],
                            Now, IoOk)
                 ELSE cached.fs]

\* validate(): the fingerprint of the two texts, the cache lookup, and the rest
validate(fs, useCache, docPath, docText, specPath, specText, type, outcome) ==
    validateAfterLookup(IF useCache
                        THEN read(fs, Mgr, docPath, contentHash(docText, specText))
                        ELSE [ret |-> Absent, fs |-> fs],
                        useCache, docPath, contentHash(docText, specText),
                        specPath, type, outcome)

-----------------------------------------------------------------------------
(* BatchValidator *)

\* discoverValidationDomains: for each source in turn, every directory at or
\* below it that holds a README.md
discoverValidationDomains(sources) ==
    Flatten([i \in 1..Len(sources) |->
        LET found == SelectSeq(DirOrder,
                               LAMBDA dir : IsPrefix(sources[i], dir)
                                            /\ \E k \in 1..Len(Listing(dir)) :
                                                   Listing(dir)[k] = "README")
        IN  [j \in 1..Len(found) |->
                [dir |-> found[j], readmePath |-> DocPath(found[j], "README"),
                 type |-> found[j]]]])

\* the documents of the domains in the order the two loops reach them, the
\* README and the "_" files left out
DocumentsOf(domains) ==
    Flatten([i \in 1..Len(domains) |->
        LET names == SelectSeq(Listing(domains[i].dir), LAMBDA n : ~IsSkippedName(n))
        IN  [j \in 1..Len(names) |->
                [dir |-> domains[i].dir, name |-> names[j],
                 readmePath |-> domains[i].readmePath, type |-> domains[i].type]]])

\* validateType's filter: d.type === type || basename(d.dir) === type
MatchingDomains(domains, type) ==
    SelectSeq(domains, LAMBDA d : d.type = type \/ <<d.dir[Len(d.dir)]>> = type)

\* the result pushed when validation threw
SyntheticResult(docPath, type, message) ==
    [path |-> docPath, type |-> type, filename |-> docPath.segs[Len(docPath.segs)],
     compliant |-> FALSE, severity |-> "error",
     issues |-> << <<"Validation failed: ", message>> >>, reason |-> <<message>>]

\* validateDocument that loses a failure instead of recording it
validateDocument_DropFailure(b, docPath, type, v) ==
    IF v.threw THEN b
    ELSE [b EXCEPT !.cacheStats = IF v.cacheHit THEN [@ EXCEPT !.hits = @ + 1]
                                  ELSE [@ EXCEPT !.misses = @ + 1],
                   !.results = Append(@, [path |-> docPath, type |-> type,
                                          filename |-> docPath.segs[Len(docPath.segs)],
                                          compliant |-> v.result.compliant,
                                          severity |-> v.result.severity,
                                          issues |-> v.result.issues,
                                          reason |-> v.result.reason])]

\* validateDocument, given what validator.validate() did: count the hit or miss
\* and push the result, or push the synthetic result of the catch block
validateDocument(b, docPath, type, v) ==
    IF v.threw
    THEN [b EXCEPT !.results = Append(@, SyntheticResult(docPath, type, v.message))]
    ELSE [b EXCEPT !.cacheStats = IF v.cacheHit THEN [@ EXCEPT !.hits = @ + 1]
                                  ELSE [@ EXCEPT !.misses = @ + 1],
                   !.results = Append(@, [path |-> docPath, type |-> type,
                                          filename |-> docPath.segs[Len(docPath.segs)],
                                          compliant |-> v.result.compliant,
                                          severity |-> v.result.severity,
                                          issues |-> v.result.issues,
                                          reason |-> v.result.reason])]

\* checkFailFast that stops on any non-compliant result
checkFailFast_OnAnyIssue(b, failFast) ==
    IF ~failFast \/ b.results = <<>> THEN b
    ELSE IF ~b.results[Len(b.results)].compliant
         THEN [b EXCEPT !.stoppedEarly = TRUE] ELSE b

\* checkFailFast: the last result is non-compliant with error severity
checkFailFast(b, failFast) ==
    IF ~failFast \/ b.results = <<>> THEN b
    ELSE LET lastResult == b.results[Len(b.results)]
         IN  IF ~lastResult.compliant /\ lastResult.severity = "error"
             THEN [b EXCEPT !.stoppedEarly = TRUE] ELSE b

NoEvent == [doc |-> <<>>]

NoSeen == [validated |-> FALSE]

InitBatch ==
    /\ RestIdle
    /\ CompIdle
    /\ CacheIdle
    /\ ConcIdle
    /\ PathIdle
    /\ tree = [doc |-> [d \in BatchDocs |-> <<"a", "b">>],
               spec |-> [dir \in DomainDirs |-> <<"c">>],
               edits |-> 0]
    /\ cfg \in [failFast : BOOLEAN, useCache : BOOLEAN, sources : SourceConfigs]
    /\ bv = [pc |-> "idle", docs |-> <<>>, pos |-> 1, results |-> <<>>,
             stoppedEarly |-> FALSE, cacheStats |-> [hits |-> 0, misses |-> 0],
             runs |-> 0, kind |-> "none"]
    /\ hist = [ev |-> NoEvent, seen |-> [d \in BatchDocs |-> NoSeen], threw |-> {}]

\* validateAll up to its first validateDocument call
StartAll ==
    /\ bv.pc \in {"idle", "done", "rejected"}
    /\ bv.runs < MaxRuns
    /\ LET docs == DocumentsOf(discoverValidationDomains(cfg.sources))
       IN  bv' = [bv EXCEPT !.results = <<>>, !.stoppedEarly = FALSE, !.docs = docs,
                            !.pos = 1, !.runs = @ + 1, !.kind = "all",
                            !.pc = IF docs = <<>> THEN "done" ELSE "running"]
    /\ hist' = [hist EXCEPT !.threw = {}]
    /\ UNCHANGED <<restVars, compVars, tree, cfg, files, last, concVars, pathVars>>

\* validateType(type) up to its first validateDocument call; it throws when no
\* domain matches
StartType(type) ==
    /\ bv.pc \in {"idle", "done", "rejected"}
    /\ bv.runs < MaxRuns
    /\ LET matching == MatchingDomains(discoverValidationDomains(cfg.sources), type)
           docs == DocumentsOf(matching)
       IN  bv' = [bv EXCEPT !.results = <<>>, !.stoppedEarly = FALSE, !.docs = docs,
                            !.pos = 1, !.runs = @ + 1, !.kind = "type",
                            !.pc = IF matching = <<>> THEN "rejected"
                                   ELSE IF docs = <<>> THEN "done" ELSE "running"]
    /\ hist' = [hist EXCEPT !.threw = {}]
    /\ UNCHANGED <<restVars, compVars, tree, cfg, files, last, concVars, pathVars>>

\* what one pass of the inner loop does with the outcome v of validate():
\* validateDocument, checkFailFast, and the loop tests
LoopPass(v, d, key, docPath) ==
    LET pushed == checkFailFast(validateDocument(bv, docPath, d.type, v), cfg.failFast)
    IN  /\ files' = v.fs
        /\ bv' = [pushed EXCEPT !.pos = @ + 1,
                                !.pc = IF pushed.stoppedEarly \/ bv.pos = Len(bv.docs)
                                       THEN "done" ELSE "running"]
        /\ hist' = [ev |-> [doc |-> key, hit |-> v.cacheHit, classified |-> v.classified,
                            threw |-> v.threw, docText |-> tree.doc[key],
                            specText |-> tree.spec[d.dir], prev |-> hist.seen[key],
                            result |-> IF v.threw THEN <<>> ELSE v.result],
                    seen |-> IF v.threw \/ ~cfg.useCache THEN hist.seen
                             ELSE [hist.seen EXCEPT ![key] =
                                      [validated |-> TRUE, docText |-> tree.doc[key],
                                       specText |-> tree.spec[d.dir],
                                       stored |-> IF v.cacheHit THEN v.result
                                                  ELSE SanitizedResult(v.result)]],
                    threw |-> IF v.threw THEN hist.threw \cup {Len(bv.results) + 1}
                              ELSE hist.threw]

\* one pass of the inner loop on the next document of the run
ValidateNext(outcome) ==
    /\ bv.pc = "running"
    /\ LET d == bv.docs[bv.pos]
       IN  LoopPass(validate(files, cfg.useCache, DocPath(d.dir, d.name),
                             tree.doc[<<d.dir, d.name>>], d.readmePath,
                             tree.spec[d.dir], d.type, outcome),
                    d, <<d.dir, d.name>>, DocPath(d.dir, d.name))
    /\ UNCHANGED <<restVars, compVars, tree, cfg, last, concVars, pathVars>>

\* somebody edits a document
EditDoc(key, text) ==
    /\ tree.edits < MaxEdits
    /\ tree.doc[key] # text
    /\ tree' = [tree EXCEPT !.doc[key] = text, !.edits = @ + 1]
    /\ UNCHANGED <<restVars, compVars, cfg, bv, hist, files, last, concVars, pathVars>>

\* somebody edits the README of a directory
EditSpec(dir, text) ==
    /\ tree.edits < MaxEdits
    /\ tree.spec[dir] # text
    /\ tree' = [tree EXCEPT !.spec[dir] = text, !.edits = @ + 1]
    /\ UNCHANGED <<restVars, compVars, cfg, bv, hist, files, last, concVars, pathVars>>

\* the document and the README that get edited
EditedDocs == {<< <<"roles">>, "a" >>}

EditedDirs == {<<"roles">>}

TypeNames == {<<"roles">>, <<"conv">>, <<"bogus">>}

NextBatch ==
    \/ StartAll
    \/ \E type \in TypeNames : StartType(type)
    \/ \E outcome \in ClassifierOutcomes : ValidateNext(outcome)
    \/ \E key \in EditedDocs, text \in DocTexts : EditDoc(key, text)
    \/ \E dir \in EditedDirs, text \in SpecTexts : EditSpec(dir, text)

SpecBatch == InitBatch /\ [][NextBatch]_vars

-----------------------------------------------------------------------------
(* cachePathFor on pairs of document paths *)

\* the file a path denotes: a relative path is resolved against process.cwd()
Resolve(p) == IF p.abs THEN p ELSE Path(TRUE, Cwd.segs \o p.segs, p.ext)

\* document paths inside the project root, outside it, relative, and without ".md"
PathPool ==
    {Path(TRUE, <<"p", "roles", "a">>, ".md"),
     Path(TRUE, <<"p", "roles", "b">>, ".md"),
     Path(TRUE, <<"p", "roles", "a">>, ""),
     Path(TRUE, <<"roles", "a">>, ".md"),
     Path(TRUE, <<"q", "roles", "a">>, ".md"),
     Path(TRUE, <<"p", "p", "roles", "a">>, ".md"),
     Path(FALSE, <<"roles", "a">>, ".md"),
     Path(FALSE, <<"p", "roles", "a">>, ".md")}

\* a manager with the project root configured, and one without
Managers == {CacheManager(NoRoot, ProjectRoot), CacheManager(NoRoot, NoRoot)}

InitPaths ==
    /\ RestIdle
    /\ CompIdle
    /\ CacheIdle
    /\ ConcIdle
    /\ BatchIdle
    /\ disk = <<>>
    /\ owner = <<>>
    /\ calls \in [mgr : Managers, a : PathPool, b : PathPool, out : {<<>>}]

\* mgr.cachePathFor(a) and mgr.cachePathFor(b)
CachePathForPair ==
    /\ calls.out = <<>>
    /\ calls' = [calls EXCEPT !.out = <<cachePathFor(calls.mgr, calls.a),
                                        cachePathFor(calls.mgr, calls.b)>>]
    /\ UNCHANGED <<restVars, compVars, cacheVars, concVars, batchVars, disk, owner>>

NextPaths == CachePathForPair

SpecPaths == InitPaths /\ [][NextPaths]_vars

-----------------------------------------------------------------------------
(* Orphan detection *)

\* the documents of the project: one a batch run validates, a "_" template that
\* `validate document` can be given, and one in a directory that is a source in
\* one configuration only
OrphanDocs ==
    {Path(TRUE, <<"p", "roles", "a">>, ".md"),
     Path(TRUE, <<"p", "roles", "_t">>, ".md"),
     Path(TRUE, <<"p", "notes", "n">>, ".md")}

OrphanSources == { << <<"roles">> >>, << <<"roles">>, <<"notes">> >> }

\* the documents that fg.sync("**/*.md", {cwd: sourceDir}) lists
ListedUnder(fsDocs, sourceDir) ==
    {d \in DOMAIN fsDocs : /\ d.abs = sourceDir.abs
                           /\ d.ext = ".md"
                           /\ IsPrefix(sourceDir.segs, d.segs)
                           /\ Len(d.segs) > Len(sourceDir.segs)}

\* buildDocumentMap: the keys join(source, relFile) without ".md" of the
\* documents under each source, README and "_" names left out; a source
\* directory that does not exist gives none
buildDocumentMap(fsDocs, root, sources) ==
    UNION {LET sourceDir == Path(root.abs, root.segs \o sources[i], "")
           IN  {sources[i] \o SubSeq(d.segs, Len(sourceDir.segs) + 1, Len(d.segs)) :
                   d \in {f \in ListedUnder(fsDocs, sourceDir) :
                             LET name == f.segs[Len(f.segs)]
                             IN  ~(name = "README" \/ name \in UnderscoreNames)}}
           : i \in 1..Len(sources)}

\* orphanedCacheFiles: every "**/*.json" under the cache root whose path
\* relative to the cache root, without ".json", is not a key of the document map
orphanedCacheFiles(fs, fsDocs, mgr, root, sources) ==
    LET validDocuments == buildDocumentMap(fsDocs, root, sources)
        cacheFiles == {cf \in DOMAIN fs : /\ cf.ext = ".json"
                                          /\ IsPrefix(mgr.cacheRoot.segs, cf.segs)
                                          /\ Len(cf.segs) > Len(mgr.cacheRoot.segs)}
        docKey(cf) == SubSeq(cf.segs, Len(mgr.cacheRoot.segs) + 1, Len(cf.segs))
    IN  {[file |-> cacheFile, reason |-> "document_missing",
          docName |-> cacheFile.segs[Len(cacheFile.segs)],
          type |-> docKey(cacheFile)[1]] :
            cacheFile \in {cf \in cacheFiles : docKey(cf) \notin validDocuments}}

FsChange == [op |-> "fs"]

InitOrphans ==
    /\ RestIdle
    /\ CompIdle
    /\ CacheIdle
    /\ ConcIdle
    /\ BatchIdle
    /\ disk = [d \in OrphanDocs |-> <<"h1">>]
    /\ owner = NoFiles
    /\ calls = <<>>

\* a validation of document d through the cache that misses: the entry is
\* written under the fingerprint of the text on disk
StoreVerdict(d) ==
    /\ d \in DOMAIN disk
    /\ files' = write(files, Mgr, d, disk[d], VerdictOf("Yes"), Metadata, Now, IoOk)
    /\ owner' = PutFile(owner, cachePathFor(Mgr, d), d)
    /\ last' = FsChange
    /\ UNCHANGED <<restVars, compVars, disk, calls, concVars, batchVars>>

\* the text of document d is edited, or the deleted document is created again
EditFile(d, h) ==
    /\ IF d \in DOMAIN disk THEN disk[d] # h ELSE TRUE
    /\ disk' = PutFile(disk, d, h)
    /\ last' = FsChange
    /\ UNCHANGED <<restVars, compVars, files, owner, calls, concVars, batchVars>>

DeleteFile(d) ==
    /\ d \in DOMAIN disk
    /\ disk' = Unlink(disk, d)
    /\ last' = FsChange
    /\ UNCHANGED <<restVars, compVars, files, owner, calls, concVars, batchVars>>

OrphanedCacheFiles(sources) ==
    /\ last' = [op |-> "orphans", sources |-> sources,
                ret |-> orphanedCacheFiles(files, disk, Mgr, ProjectRoot, sources)]
    /\ UNCHANGED <<restVars, compVars, files, disk, owner, calls, concVars, batchVars>>

NextOrphans ==
    \/ \E d \in OrphanDocs : StoreVerdict(d)
    \/ \E d \in OrphanDocs, h \in Hashes : EditFile(d, h)
    \/ \E d \in OrphanDocs : DeleteFile(d)
    \/ \E sources \in OrphanSources : OrphanedCacheFiles(sources)

SpecOrphans == InitOrphans /\ [][NextOrphans]_vars

-----------------------------------------------------------------------------
(* Watch mode: watchAndRecompile *)

\* `timer` before the first event: null
NoTimer == 0

\* the watcher callback without clearTimeout
OnFileChange_NoClear(s) ==
    [s EXCEPT !.pending = @ \cup {[id |-> s.nextId, due |-> s.now + DebounceTicks]},
              !.timer = s.nextId,
              !.nextId = @ + 1,
              !.log = Append(@, [kind |-> "change", t |-> s.now])]

\* the watcher callback: if (timer) clearTimeout(timer); timer = setTimeout(..,
\* debounceMs). clearTimeout of a timer that already fired does nothing
OnFileChange(s) ==
    [s EXCEPT !.pending = {p \in @ : p.id # s.timer}
                              \cup {[id |-> s.nextId, due |-> s.now + DebounceTicks]},
              !.timer = s.nextId,
              !.nextId = @ + 1,
              !.log = Append(@, [kind |-> "change", t |-> s.now])]

\* the timer callback: log "Change detected", then await compiler.compileAll().
\* compileAll awaits fast-glob, so the callback returns to the event loop with
\* the run in progress; `running` holds the start times of the runs in progress
OnTimer(s, p) ==
    [s EXCEPT !.pending = @ \ {p},
              !.running = Append(@, s.now),
              !.log = Append(@, [kind |-> "compile", t |-> s.now])]

\* the promise of the i-th compileAll run in progress settles
OnRecompileSettled(s, i) ==
    [s EXCEPT !.running = SubSeq(@, 1, i - 1) \o SubSeq(@, i + 1, Len(@))]

\* a timer whose time has come
Due(s) == {p \in s.pending : p.due <= s.now}

InitWatch ==
    /\ RestIdle
    /\ CacheIdle
    /\ ConcIdle
    /\ BatchIdle
    /\ PathIdle
    /\ summ = <<>>
    /\ cli = <<>>
    /\ ob = <<>>
    /\ rc = <<>>
    /\ watcher = [now |-> 0, timer |-> NoTimer, pending |-> {}, nextId |-> 1,
                  running |-> <<>>, log |-> <<>>]

\* fs.watch reports a change; timer callbacks that are due run first
FileChange ==
    /\ Due(watcher) = {}
    /\ Cardinality({i \in 1..Len(watcher.log) : watcher.log[i].kind = "change"}) < MaxEvents
    /\ watcher' = OnFileChange(watcher)
    /\ UNCHANGED <<restVars, cacheVars, concVars, batchVars, pathVars, summ, cli, ob, rc>>

TimerFires ==
    /\ \E p \in Due(watcher) : watcher' = OnTimer(watcher, p)
    /\ UNCHANGED <<restVars, cacheVars, concVars, batchVars, pathVars, summ, cli, ob, rc>>

\* the clock advances when no timer is due
Tick ==
    /\ Due(watcher) = {}
    /\ watcher.now < MaxTime
    /\ watcher' = [watcher EXCEPT !.now = @ + 1]
    /\ UNCHANGED <<restVars, cacheVars, concVars, batchVars, pathVars, summ, cli, ob, rc>>

\* a compileAll run ends, at any time after it started
RecompileEnds ==
    /\ \E i \in 1..Len(watcher.running) : watcher' = OnRecompileSettled(watcher, i)
    /\ UNCHANGED <<restVars, cacheVars, concVars, batchVars, pathVars, summ, cli, ob, rc>>

NextWatch == FileChange \/ TimerFires \/ Tick \/ RecompileEnds

SpecWatch == InitWatch /\ [][NextWatch]_vars

-----------------------------------------------------------------------------
(* BatchValidator.summary *)

\* property names that every object literal inherits from Object.prototype; a
\* top-level source directory can have such a name
ObjectPrototypeNames == {<<"constructor">>}

\* the domain types of the results: relative(root, dir)
SummaryTypes == {<<"roles">>, <<"context", "conv">>, <<"constructor">>}

\* the results a run can hold, as far as summary() reads them: severity is an
\* optional field of CachedValidationResult, and a verdict served from the cache
\* is the stored one as it is, so a non-compliant result can come without it
SummaryResults ==
    {[type |-> t, compliant |-> v.compliant, severity |-> v.severity] :
        t \in SummaryTypes,
        v \in {[compliant |-> TRUE, severity |-> NoSeverity],
               [compliant |-> FALSE, severity |-> "warning"],
               [compliant |-> FALSE, severity |-> "error"],
               [compliant |-> FALSE, severity |-> NoSeverity]}}

\* byType[key] is truthy: an own entry, or a property that {} inherits
Truthy(byType, key) == key \in DOMAIN byType \/ key \in ObjectPrototypeNames

\* the loop body of summary(); ++ on the fields of an inherited property
\* changes no entry of byType
CountResult(byType, result) ==
    LET created == IF Truthy(byType, result.type) THEN byType
                   ELSE [t \in DOMAIN byType \cup {result.type} |->
                            IF t = result.type
                            THEN [total |-> 0, compliant |-> 0, issues |-> 0]
                            ELSE byType[t]]
    IN  IF result.type \notin DOMAIN created THEN created
        ELSE [created EXCEPT ![result.type] =
                 [total |-> @.total + 1,
                  compliant |-> IF result.compliant THEN @.compliant + 1 ELSE @.compliant,
                  issues |-> IF result.compliant THEN @.issues ELSE @.issues + 1]]

RECURSIVE ByTypeOf(_)
ByTypeOf(results) ==
    IF results = <<>> THEN [t \in {} |-> <<>>]
    ELSE CountResult(ByTypeOf(SubSeq(results, 1, Len(results) - 1)),
                     results[Len(results)])

\* results.filter(pred).length
CountWhere(results, pred(_)) == Cardinality({i \in 1..Len(results) : pred(results[i])})

\* summary(): the overall counts and the breakdown by type
summary(results) ==
    [total |-> Len(results),
     compliant |-> CountWhere(results, LAMBDA r : r.compliant),
     warnings |-> CountWhere(results, LAMBDA r : ~r.compliant /\ r.severity = "warning"),
     errors |-> CountWhere(results, LAMBDA r : ~r.compliant /\ r.severity = "error"),
     byType |-> ByTypeOf(results)]

NoSummary == [total |-> -1]

InitSummary ==
    /\ RestIdle
    /\ CacheIdle
    /\ ConcIdle
    /\ BatchIdle
    /\ PathIdle
    /\ watcher = <<>>
    /\ cli = <<>>
    /\ ob = <<>>
    /\ rc = <<>>
    /\ \E n \in 0..MaxResults :
           summ \in [results : [1..n -> SummaryResults], out : {NoSummary}]

\* batch.summary() after the run
Summary ==
    /\ summ.out = NoSummary
    /\ summ' = [summ EXCEPT !.out = summary(summ.results)]
    /\ UNCHANGED <<restVars, cacheVars, concVars, batchVars, pathVars, watcher, cli, ob, rc>>

NextSummary == Summary

SpecSummary == InitSummary /\ [][NextSummary]_vars

-----------------------------------------------------------------------------
(* The exit status of `praxis validate document | all | ci [--strict]` *)

ValidateModes == {"document", "all", "ci", "ciStrict"}

\* process.exit(..) at the end of each action handler, the validation having
\* produced `results` (one result in document mode)
ExitStatus(mode, results) ==
    CASE mode = "document" -> IF results[1].compliant THEN 0 ELSE 1
      [] mode = "all"      -> IF summary(results).errors = 0 THEN 0 ELSE 1
      [] mode = "ci"       -> IF summary(results).errors = 0 THEN 0 ELSE 1
      [] mode = "ciStrict" -> IF summary(results).compliant = summary(results).total
                              THEN 0 ELSE 1

Running == -1

InitExit ==
    /\ RestIdle
    /\ CacheIdle
    /\ ConcIdle
    /\ BatchIdle
    /\ PathIdle
    /\ watcher = <<>>
    /\ summ = <<>>
    /\ ob = <<>>
    /\ rc = <<>>
    /\ \E mode \in ValidateModes :
       \E n \in (IF mode = "document" THEN {1} ELSE 0..MaxResults) :
           cli \in [mode : {mode}, results : [1..n -> SummaryResults], exit : {Running}]

\* the handler reaches its process.exit
Exit ==
    /\ cli.exit = Running
    /\ cli' = [cli EXCEPT !.exit = ExitStatus(cli.mode, cli.results)]
    /\ UNCHANGED <<restVars, cacheVars, concVars, batchVars, pathVars, watcher, summ, ob, rc>>

NextExit == Exit

SpecExit == InitExit /\ [][NextExit]_vars

-----------------------------------------------------------------------------
(* OutputBuilder. A text is a sequence of tokens: a heading "# Title", an item, *)
(* a separator, a newline run                                                  *)

\* SEPARATOR = "\n---\n"
SEPARATOR == "\n---\n"

\* BLANK_SEPARATOR = "\n"
BLANK_SEPARATOR == "\n"

\* contents.join(separator)
RECURSIVE Join(_, _)
Join(contents, separator) ==
    IF contents = <<>> THEN <<>>
    ELSE IF Len(contents) = 1 THEN contents[1]
    ELSE contents[1] \o <<separator>> \o Join(Tail(contents), separator)

\* buildSection: `# ${title}\n\n${body}\n`, each item being one token
buildSection(title, contents, separator) ==
    <<"# " \o title, "\n\n">>
        \o Join([i \in 1..Len(contents) |-> <<contents[i]>>], separator)
        \o <<"\n">>

\* buildClaudeCodeFrontmatter: null without metadata, else the "---" block
buildClaudeCodeFrontmatter(agentMetadata) ==
    IF agentMetadata THEN << <<"---", "name", "description", "---">> >> ELSE <<>>

\* `this.role` is null before addRole, and falsy when it is the empty string
NoRole == "null"

\* build() that pushes Context before Constitution
build_ContextFirst(b) ==
    LET sections ==
            buildClaudeCodeFrontmatter(b.agentMetadata)
            \o (IF b.role \notin {NoRole, ""}
                THEN <<buildSection("Role", <<b.role>>, BLANK_SEPARATOR)>> ELSE <<>>)
            \o (IF Len(b.responsibilities) > 0
                THEN <<buildSection("Responsibilities", b.responsibilities, SEPARATOR)>>
                ELSE <<>>)
            \o (IF Len(b.context) > 0
                THEN <<buildSection("Context", b.context, SEPARATOR)>> ELSE <<>>)
            \o (IF Len(b.constitution) > 0
                THEN <<buildSection("Constitution", b.constitution, BLANK_SEPARATOR)>>
                ELSE <<>>)
            \o (IF Len(b.reference) > 0
                THEN <<buildSection("Reference", b.reference, SEPARATOR)>> ELSE <<>>)
    IN  Join(sections, "\n")

\* build(): the sections that have content, in the order of the pushes, joined
\* by "\n"
build(b) ==
    LET sections ==
            buildClaudeCodeFrontmatter(b.agentMetadata)
            \o (IF b.role \notin {NoRole, ""}
                THEN <<buildSection("Role", <<b.role>>, BLANK_SEPARATOR)>> ELSE <<>>)
            \o (IF Len(b.responsibilities) > 0
                THEN <<buildSection("Responsibilities", b.responsibilities, SEPARATOR)>>
                ELSE <<>>)
            \o (IF Len(b.constitution) > 0
                THEN <<buildSection("Constitution", b.constitution, BLANK_SEPARATOR)>>
                ELSE <<>>)
            \o (IF Len(b.context) > 0
                THEN <<buildSection("Context", b.context, SEPARATOR)>> ELSE <<>>)
            \o (IF Len(b.reference) > 0
                THEN <<buildSection("Reference", b.reference, SEPARATOR)>> ELSE <<>>)
    IN  Join(sections, "\n")

\* the content lists and role bodies given to the add calls
ContentLists == {<<>>, <<"x">>, <<"x", "y">>}

RoleBodies == {"", "r"}

NotBuilt == <<"not built">>

InitBuilder ==
    /\ RestIdle
    /\ CacheIdle
    /\ ConcIdle
    /\ BatchIdle
    /\ PathIdle
    /\ watcher = <<>>
    /\ summ = <<>>
    /\ cli = <<>>
    /\ rc = <<>>
    /\ \E meta \in BOOLEAN :
           ob = [agentMetadata |-> meta, role |-> NoRole, responsibilities |-> <<>>,
                 constitution |-> <<>>, context |-> <<>>, reference |-> <<>>,
                 adds |-> <<>>, out |-> NotBuilt]

\* one of addRole, addResponsibilities, addConstitution, addContext, addReference
Add(field, content) ==
    /\ ob.out = NotBuilt
    /\ Len(ob.adds) < MaxAdds
    /\ ob' = [ob EXCEPT ![field] = content, !.adds = Append(@, field)]
    /\ UNCHANGED <<restVars, cacheVars, concVars, batchVars, pathVars, watcher, summ, cli, rc>>

AddRole == \E content \in RoleBodies : Add("role", content)

AddResponsibilities == \E contents \in ContentLists : Add("responsibilities", contents)

AddConstitution == \E contents \in ContentLists : Add("constitution", contents)

AddContext == \E contents \in ContentLists : Add("context", contents)

AddReference == \E contents \in ContentLists : Add("reference", contents)

Build ==
    /\ ob.out = NotBuilt
    /\ ob' = [ob EXCEPT !.out = build(ob)]
    /\ UNCHANGED <<restVars, cacheVars, concVars, batchVars, pathVars, watcher, summ, cli, rc>>

NextBuilder ==
    AddRole \/ AddResponsibilities \/ AddConstitution \/ AddContext \/ AddReference \/ Build

SpecBuilder == InitBuilder /\ [][NextBuilder]_vars

-----------------------------------------------------------------------------
(* The role compiler: Frontmatter, Markdown, GlobExpander, RoleCompiler *)

\* A project file is a sequence of tokens, each token a line or a piece of a
\* line.  A file name is a directory, a stem of characters and an extension, so
\* that lower-casing and sorting are computed on the characters.

\* DELIMITER = "---"
DELIMITER == "---"

\* the tokens that hold the text "\n---": a delimiter line after another line,
\* and the separator the output builder puts between items
HoldsDelimiter(token) == token \in {DELIMITER, SEPARATOR}

\* content.indexOf("\n---", 3): the first such token after the opening one,
\* 0 when there is none
IndexOfDelimiter(content) ==
    LET found == {i \in 2..Len(content) : HoldsDelimiter(content[i])}
    IN  IF found = {} THEN 0 ELSE CHOOSE i \in found : \A j \in found : i <= j

\* content.startsWith("---\n")
hasFrontmatter(content) == Len(content) > 0 /\ content[1] = DELIMITER

\* Markdown.bodyRaw
bodyRaw(content) ==
    IF ~hasFrontmatter(content) THEN content
    ELSE IF IndexOfDelimiter(content) = 0 THEN content
    ELSE SubSeq(content, IndexOfDelimiter(content) + 1, Len(content))

\* the tokens String.prototype.trim removes at either end
WhitespaceTokens == {"\n", "\n\n", " "}

RECURSIVE trimStart(_)
trimStart(content) ==
    IF content # <<>> /\ Head(content) \in WhitespaceTokens
    THEN trimStart(Tail(content)) ELSE content

RECURSIVE trimEnd(_)
trimEnd(content) ==
    IF content # <<>> /\ content[Len(content)] \in WhitespaceTokens
    THEN trimEnd(SubSeq(content, 1, Len(content) - 1)) ELSE content

\* the tokens of a text as the one string they spell
RECURSIVE Str(_)
Str(content) == IF content = <<>> THEN "" ELSE Head(content) \o Str(Tail(content))

\* Markdown.body: bodyRaw().trim(), a string
body(content) == Str(trimEnd(trimStart(bodyRaw(content))))

\* Frontmatter.extractRawYaml: the lines between the delimiters, "" without them
extractRawYaml(content) ==
    IF ~hasFrontmatter(content) THEN <<>>
    ELSE IF IndexOfDelimiter(content) = 0 THEN <<>>
    ELSE SubSeq(content, 2, IndexOfDelimiter(content) - 1)

\* the directories of Paths and of the manifests
rolesDir == <<"content", "roles">>

agentsDir == <<"plugins", "praxis", "agents">>

responsibilitiesDir == <<"content", "responsibilities">>

constitutionDir == <<"content", "context", "constitution">>

\* the characters of the names, in code unit order
Chars ==
    <<" ", "-", ".", "/", "1", "A", "D", "E", "M", "R", "T", "_",
      "a", "b", "c", "d", "e", "f", "g", "h", "i", "j", "k", "l", "m",
      "n", "o", "p", "q", "r", "s", "t", "u", "v", "w", "x", "y", "z">>

CharRank(c) == CHOOSE i \in 1..Len(Chars) : Chars[i] = c

\* String.prototype.toLowerCase
UpperChars == <<"A", "D", "E", "M", "R", "T">>

LowerChars == <<"a", "d", "e", "m", "r", "t">>

LowerOf(c) ==
    IF \E i \in 1..Len(UpperChars) : UpperChars[i] = c
    THEN LowerChars[CHOOSE i \in 1..Len(UpperChars) : UpperChars[i] = c]
    ELSE c

toLowerCase(chars) == [i \in 1..Len(chars) |-> LowerOf(chars[i])]

\* a pattern is a file name with wildcards; "*" alone is the stem of "*.md"
STAR == <<"*">>

\* the lines js-yaml reads in the headers of this project, with the key each
\* sets

YamlKey ==
    "alias: T" :> "alias"
    @@ "alias: t" :> "alias"
    @@ "alias: A  t" :> "alias"
    @@ "alias: ''" :> "alias"
    @@ "title: x" :> "title"
    @@ "owner: x" :> "owner"
    @@ "agent_description: d" :> "agent_description"
    @@ "constitution: true" :> "constitution"
    @@ "constitution: content/context/constitution/*.md" :> "constitution"
    @@ "responsibilities: content/responsibilities/*.md" :> "responsibilities"
    @@ "context: content/responsibilities/r.md" :> "context"
    @@ "refs: plugins/praxis/agents/*.md" :> "refs"

\* the strings js-yaml loads, as characters
ScalarOf ==
    "alias: T" :> <<"T">>
    @@ "alias: t" :> <<"t">>
    @@ "alias: A  t" :> <<"A", " ", " ", "t">>
    @@ "alias: ''" :> <<>>
    @@ "title: x" :> <<"x">>
    @@ "owner: x" :> <<"x">>
    @@ "agent_description: d" :> <<"d">>

\* the patterns js-yaml loads
PatternOf ==
    "responsibilities: content/responsibilities/*.md"
        :> [dir |-> responsibilitiesDir, stem |-> STAR, ext |-> "md"]
    @@ "context: content/responsibilities/r.md"
        :> [dir |-> responsibilitiesDir, stem |-> <<"r">>, ext |-> "md"]
    @@ "refs: plugins/praxis/agents/*.md"
        :> [dir |-> agentsDir, stem |-> STAR, ext |-> "md"]
    @@ "constitution: content/context/constitution/*.md"
        :> [dir |-> constitutionDir, stem |-> STAR, ext |-> "md"]

\* the lines js-yaml loads as the boolean true
TrueLines == {"constitution: true"}

\* a line js-yaml rejects with a YAMLException
MalformedLine == "alias: [T"

\* yaml.load throws on a payload that is not YAML
YamlThrows(payload) == \E i \in 1..Len(payload) : payload[i] \notin DOMAIN YamlKey

\* Frontmatter.extractAndParse: the lines that set the keys of the record; never
\* called in the model on a payload that makes yaml.load throw
extractAndParse(content) ==
    {extractRawYaml(content)[i] : i \in 1..Len(extractRawYaml(content))}

HasKey(content, key) == \E line \in extractAndParse(content) : YamlKey[line] = key

LineOf(content, key) == CHOOSE line \in extractAndParse(content) : YamlKey[line] = key

\* Frontmatter.value of a key that holds a string
value(content, key) == ScalarOf[LineOf(content, key)]

\* Frontmatter.array of a key that holds patterns: [] for a missing key, the
\* value wrapped otherwise
array(content, key) ==
    IF HasKey(content, key) THEN <<PatternOf[LineOf(content, key)]>> ELSE <<>>

\* the alias of a header, <<>> standing for undefined and for ""
NoAlias == <<>>

aliasOf(content) == IF HasKey(content, "alias") THEN value(content, "alias") ELSE NoAlias

\* EXCLUDED_FILES = ["_template.md", "README.md"]
EXCLUDED_FILES ==
    {[stem |-> <<"_", "t", "e", "m", "p", "l", "a", "t", "e">>, ext |-> "md"],
     [stem |-> <<"R", "E", "A", "D", "M", "E">>, ext |-> "md"]}

\* isExcluded that looks at the whole relative path, not at its basename
isExcluded_WholePath(filePath) ==
    filePath.dir = <<>> /\ [stem |-> filePath.stem, ext |-> filePath.ext] \in EXCLUDED_FILES

\* GlobExpander.isExcluded, and the test of compileAll
isExcluded(filePath) == [stem |-> filePath.stem, ext |-> filePath.ext] \in EXCLUDED_FILES

\* GlobExpander.isGlob: pattern.includes("*") || .includes("?") || .includes("[")
isGlob(pattern) ==
    \/ \E i \in 1..Len(pattern.dir) : pattern.dir[i] \in {"*", "**"}
    \/ \E i \in 1..Len(pattern.stem) : pattern.stem[i] \in {"*", "?", "["}

\* the characters of the directory names and of the extension
NameChars ==
    "content" :> <<"c", "o", "n", "t", "e", "n", "t">>
    @@ "roles" :> <<"r", "o", "l", "e", "s">>
    @@ "responsibilities"
        :> <<"r", "e", "s", "p", "o", "n", "s", "i", "b", "i", "l", "i", "t", "i", "e", "s">>
    @@ "context" :> <<"c", "o", "n", "t", "e", "x", "t">>
    @@ "constitution" :> <<"c", "o", "n", "s", "t", "i", "t", "u", "t", "i", "o", "n">>
    @@ "plugins" :> <<"p", "l", "u", "g", "i", "n", "s">>
    @@ "praxis" :> <<"p", "r", "a", "x", "i", "s">>
    @@ "agents" :> <<"a", "g", "e", "n", "t", "s">>
    @@ "md" :> <<"m", "d">>

\* a relative path as the characters of its string
PathChars(p) ==
    Flatten([i \in 1..Len(p.dir) |-> NameChars[p.dir[i]] \o <<"/">>])
        \o p.stem \o <<".">> \o NameChars[p.ext]

\* the order of Array.prototype.sort on two strings: by code units, a prefix first
RECURSIVE CharsBefore(_, _)
CharsBefore(a, b) ==
    IF a = <<>> THEN b # <<>>
    ELSE IF b = <<>> THEN FALSE
    ELSE IF Head(a) = Head(b) THEN CharsBefore(Tail(a), Tail(b))
    ELSE CharRank(Head(a)) < CharRank(Head(b))

\* a set of relative paths as the sorted array
RECURSIVE SortPaths(_)
SortPaths(paths) ==
    IF paths = {} THEN <<>>
    ELSE LET first == CHOOSE p \in paths :
                          \A q \in paths \ {p} : CharsBefore(PathChars(p), PathChars(q))
         IN  <<first>> \o SortPaths(paths \ {first})

\* a file name against the last segment of a pattern: "*" stands for any
\* characters, "?" for one
RECURSIVE NameMatches(_, _)
NameMatches(pattern, name) ==
    IF pattern = <<>> THEN name = <<>>
    ELSE IF Head(pattern) = "*"
    THEN NameMatches(Tail(pattern), name)
         \/ (name # <<>> /\ NameMatches(pattern, Tail(name)))
    ELSE /\ name # <<>>
         /\ Head(pattern) \in {"?", Head(name)}
         /\ NameMatches(Tail(pattern), Tail(name))

\* a directory against the directories of a pattern: "**" stands for any number
\* of directories, "*" for one
RECURSIVE DirMatches(_, _)
DirMatches(pattern, dir) ==
    IF pattern = <<>> THEN dir = <<>>
    ELSE IF Head(pattern) = "**"
    THEN DirMatches(Tail(pattern), dir)
         \/ (dir # <<>> /\ DirMatches(pattern, Tail(dir)))
    ELSE /\ dir # <<>>
         /\ Head(pattern) \in {"*", Head(dir)}
         /\ DirMatches(Tail(pattern), Tail(dir))

\* fg(pattern, {cwd: root, onlyFiles: true})
GlobMatches(fs, pattern) ==
    {p \in DOMAIN fs : /\ DirMatches(pattern.dir, p.dir)
                       /\ NameMatches(pattern.stem, p.stem)
                       /\ p.ext = pattern.ext}

\* expand without the filter
expand_NoFilter(fs, pattern) ==
    IF ~isGlob(pattern) THEN <<pattern>>
    ELSE SortPaths(GlobMatches(fs, pattern))

\* GlobExpander.expand
expand(fs, pattern) ==
    IF ~isGlob(pattern) THEN <<pattern>>
    ELSE SortPaths({p \in GlobMatches(fs, pattern) : ~isExcluded(p)})

\* GlobExpander.expandAll: results.flat()
expandAll(fs, patterns) == Flatten([i \in 1..Len(patterns) |-> expand(fs, patterns[i])])

\* the files a project may hold for an expansion, at four depths
ExpandPaths ==
    {[dir |-> <<>>, stem |-> <<"R", "E", "A", "D", "M", "E">>, ext |-> "md"],
     [dir |-> <<"content">>, stem |-> <<"R", "E", "A", "D", "M", "E">>, ext |-> "md"],
     [dir |-> <<"content">>, stem |-> <<"a">>, ext |-> "md"],
     [dir |-> <<"content", "context">>,
      stem |-> <<"_", "t", "e", "m", "p", "l", "a", "t", "e">>, ext |-> "md"],
     [dir |-> <<"content", "context">>, stem |-> <<"a", "-", "b">>, ext |-> "md"],
     [dir |-> <<"content", "context">>, stem |-> <<"a">>, ext |-> "md"],
     [dir |-> constitutionDir, stem |-> <<"R", "E", "A", "D", "M", "E">>, ext |-> "md"],
     [dir |-> constitutionDir, stem |-> <<"1">>, ext |-> "md"]}

\* the patterns given to expand: wildcards in the name, in the directories, in
\* both, and one plain path
ExpandPatterns ==
    {[dir |-> <<>>, stem |-> STAR, ext |-> "md"],
     [dir |-> constitutionDir, stem |-> STAR, ext |-> "md"],
     [dir |-> <<"content", "context", "**">>, stem |-> STAR, ext |-> "md"],
     [dir |-> <<"**">>, stem |-> STAR, ext |-> "md"],
     [dir |-> <<"content", "*">>, stem |-> STAR, ext |-> "md"],
     [dir |-> <<"**">>, stem |-> <<"R", "E", "A", "D", "M", "E">>, ext |-> "md"],
     [dir |-> <<"content">>, stem |-> <<"R", "E", "A", "D", "M", "?">>, ext |-> "md"],
     [dir |-> <<"content", "**">>, stem |-> <<"_", "*">>, ext |-> "md"],
     [dir |-> <<"content">>, stem |-> <<"R", "E", "A", "D", "M", "E">>, ext |-> "md"]}

InitExpand ==
    /\ CacheIdle
    /\ ConcIdle
    /\ BatchIdle
    /\ PathIdle
    /\ CompIdle
    /\ prints = <<>>
    /\ race = <<>>
    /\ \E present \in SUBSET ExpandPaths, pattern \in ExpandPatterns :
           globs = [fs |-> [p \in present |-> <<>>], pattern |-> pattern,
                    done |-> FALSE, out |-> <<>>]

\* expander.expand(pattern)
Expand ==
    /\ ~globs.done
    /\ globs' = [globs EXCEPT !.done = TRUE, !.out = expand(globs.fs, globs.pattern)]
    /\ UNCHANGED <<cacheVars, concVars, batchVars, pathVars, compVars, prints, race>>

NextExpand == Expand

SpecExpand == InitExpand /\ [][NextExpand]_vars

\* the texts given to contentHash: the strings over two characters
HashTexts == UNION {[1..n -> {"a", "b"}] : n \in 0..MaxText}

InitHash ==
    /\ CacheIdle
    /\ ConcIdle
    /\ BatchIdle
    /\ PathIdle
    /\ CompIdle
    /\ globs = <<>>
    /\ race = <<>>
    /\ \E d1 \in HashTexts, s1 \in HashTexts, d2 \in HashTexts, s2 \in HashTexts :
           prints = [d1 |-> d1, s1 |-> s1, d2 |-> d2, s2 |-> s2, done |-> FALSE,
                     h1 |-> <<>>, h2 |-> <<>>, again |-> <<>>]

\* contentHash(d1, s1), contentHash(d2, s2) and contentHash(d1, s1) once more
Hash ==
    /\ ~prints.done
    /\ prints' = [prints EXCEPT !.done = TRUE,
                                !.h1 = contentHash(prints.d1, prints.s1),
                                !.h2 = contentHash(prints.d2, prints.s2),
                                !.again = contentHash(prints.d1, prints.s1)]
    /\ UNCHANGED <<cacheVars, concVars, batchVars, pathVars, compVars, globs, race>>

NextHash == Hash

SpecHash == InitHash /\ [][NextHash]_vars

\* no path: the null of findRoleByAlias and of compile, the omitted outputFile
NoPath == [dir |-> <<>>, stem |-> <<>>, ext |-> ""]

\* RoleCompiler.defaultOutputPath: join(agentsDir, `${roleAlias.toLowerCase()}.md`)
defaultOutputPath(roleAlias) ==
    [dir |-> agentsDir, stem |-> toLowerCase(roleAlias), ext |-> "md"]

\* /[^a-z0-9]/ on the characters of the names
NonAlphanumeric(c) ==
    c \notin {"1", "a", "b", "c", "d", "e", "f", "g", "h", "i", "j", "k", "l", "m",
              "n", "o", "p", "q", "r", "s", "t", "u", "v", "w", "x", "y", "z"}

\* .replace(/[^a-z0-9]+/g, "-")
RECURSIVE replaceRuns(_)
replaceRuns(chars) ==
    IF chars = <<>> THEN <<>>
    ELSE IF ~NonAlphanumeric(Head(chars)) THEN <<Head(chars)>> \o replaceRuns(Tail(chars))
    ELSE IF Len(chars) > 1 /\ NonAlphanumeric(chars[2]) THEN replaceRuns(Tail(chars))
    ELSE <<"-">> \o replaceRuns(Tail(chars))

\* .replace(/^-|-$/g, "")
stripDashes(chars) ==
    LET from == IF chars # <<>> /\ chars[1] = "-" THEN 2 ELSE 1
        to   == IF Len(chars) >= from /\ chars[Len(chars)] = "-"
                THEN Len(chars) - 1 ELSE Len(chars)
    IN  SubSeq(chars, from, to)

\* the agent name of buildAgentMetadata
agentName(roleAlias) == stripDashes(replaceRuns(toLowerCase(roleAlias)))

\* buildAgentMetadata: null without agent_description
buildAgentMetadata(content) == HasKey(content, "agent_description")

\* the .map(..).filter(..) of inlineRefs and inlineConstitution: the bodies of
\* the expanded paths that exist
bodiesOf(fs, expanded) ==
    LET existsSync(p) == p \in DOMAIN fs
        existing == SelectSeq(expanded, existsSync)
    IN  [i \in 1..Len(existing) |-> body(fs[existing[i]])]

\* RoleCompiler.inlineRefs
inlineRefs(fs, content, key) == bodiesOf(fs, expandAll(fs, array(content, key)))

\* RoleCompiler.resolveConstitutionPatterns
resolveConstitutionPatterns(fs, content) ==
    IF HasKey(content, "constitution") /\ LineOf(content, "constitution") \in TrueLines
    THEN expand(fs, [dir |-> constitutionDir, stem |-> STAR, ext |-> "md"])
    ELSE <<>>

\* RoleCompiler.inlineConstitution
inlineConstitution(fs, content) == bodiesOf(fs, resolveConstitutionPatterns(fs, content))

\* writeFileSync(path, data)
writeFileSync(fs, path, data) ==
    [p \in DOMAIN fs \cup {path} |-> IF p = path THEN data ELSE fs[p]]

\* the end of compile: the file written and the path returned
compileWrite(fs, roleFile, resolvedOutputFile, out) ==
    [fs |-> writeFileSync(fs, resolvedOutputFile, out), result |-> "written",
     file |-> roleFile, path |-> resolvedOutputFile, out |-> out]

\* the builder compile fills from the role file
builderOf(fs, content) ==
    [agentMetadata    |-> buildAgentMetadata(content),
     role             |-> body(content),
     responsibilities |-> inlineRefs(fs, content, "responsibilities"),
     constitution     |-> inlineConstitution(fs, content),
     context          |-> inlineRefs(fs, content, "context"),
     reference        |-> inlineRefs(fs, content, "refs")]

\* RoleCompiler.compile: "throw" when the header does not load, "null" without
\* an alias, else the output written to outputFile or to the default path
compile(fs, roleFile, outputFile) ==
    IF YamlThrows(extractRawYaml(fs[roleFile]))
    THEN [fs |-> fs, result |-> "throw", file |-> roleFile, path |-> NoPath, out |-> <<>>]
    ELSE IF aliasOf(fs[roleFile]) = NoAlias
    THEN [fs |-> fs, result |-> "null", file |-> roleFile, path |-> NoPath, out |-> <<>>]
    ELSE compileWrite(fs, roleFile,
                      IF outputFile = NoPath
                      THEN defaultOutputPath(aliasOf(fs[roleFile])) ELSE outputFile,
                      build(builderOf(fs, fs[roleFile])))

\* the state of the compileAll loop: the files, the counter, whether an
\* exception left the loop and at which file, and the outputs written so far
LoopStart(fs) ==
    [fs |-> fs, compiled |-> 0, thrown |-> FALSE, at |-> NoPath, written |-> <<>>]

\* compileAll after `await this.compile(roleFile, outputFile)`: compiled++
afterCompile(acc, r) ==
    IF r.result = "throw" THEN [acc EXCEPT !.thrown = TRUE, !.at = r.file]
    ELSE [acc EXCEPT !.fs = r.fs,
                     !.compiled = @ + 1,
                     !.written = IF r.result = "written"
                                 THEN Append(@, [file |-> r.file, path |-> r.path])
                                 ELSE @]

\* a pass that counts the file before it looks at its alias
compileAllPass_CountFirst(acc, roleFile) ==
    IF isExcluded(roleFile) THEN acc
    ELSE IF YamlThrows(extractRawYaml(acc.fs[roleFile]))
    THEN [acc EXCEPT !.thrown = TRUE, !.at = roleFile]
    ELSE IF aliasOf(acc.fs[roleFile]) = NoAlias
    THEN [acc EXCEPT !.compiled = @ + 1]
    ELSE afterCompile(acc, compile(acc.fs, roleFile,
                                   defaultOutputPath(aliasOf(acc.fs[roleFile]))))

\* one pass of the loop of compileAll
compileAllPass(acc, roleFile) ==
    IF isExcluded(roleFile) THEN acc
    ELSE IF YamlThrows(extractRawYaml(acc.fs[roleFile]))
    THEN [acc EXCEPT !.thrown = TRUE, !.at = roleFile]
    ELSE IF aliasOf(acc.fs[roleFile]) = NoAlias THEN acc
    ELSE afterCompile(acc, compile(acc.fs, roleFile,
                                   defaultOutputPath(aliasOf(acc.fs[roleFile]))))

\* RoleCompiler.compileAll over the role files in the order fast-glob lists them
RECURSIVE compileAll(_, _)
compileAll(acc, roleFiles) ==
    IF roleFiles = <<>> \/ acc.thrown THEN acc
    ELSE compileAll(compileAllPass(acc, Head(roleFiles)), Tail(roleFiles))

\* findRoleByAlias: the first role file whose alias matches, NoPath for null,
\* [thrown |-> TRUE] when a header on the way does not load
RECURSIVE findRoleByAlias(_, _, _)
findRoleByAlias(fs, roleFiles, targetAlias) ==
    IF roleFiles = <<>> THEN [thrown |-> FALSE, file |-> NoPath]
    ELSE IF YamlThrows(extractRawYaml(fs[Head(roleFiles)]))
    THEN [thrown |-> TRUE, file |-> Head(roleFiles)]
    ELSE IF HasKey(fs[Head(roleFiles)], "alias")
            /\ toLowerCase(value(fs[Head(roleFiles)], "alias")) = toLowerCase(targetAlias)
    THEN [thrown |-> FALSE, file |-> Head(roleFiles)]
    ELSE findRoleByAlias(fs, Tail(roleFiles), targetAlias)

\* compileOne of the compile command after the lookup
compileFound(fs, found) ==
    IF found.thrown
    THEN [fs |-> fs, result |-> "throw", file |-> found.file, path |-> NoPath, out |-> <<>>]
    ELSE IF found.file = NoPath
    THEN [fs |-> fs, result |-> "exit 1", file |-> NoPath, path |-> NoPath, out |-> <<>>]
    ELSE compile(fs, found.file, NoPath)

\* the role files fg("*.md", {cwd: rolesDir}) lists, in the orders it may list
\* them: fast-glob does not sort
RoleFiles(fs) == {p \in DOMAIN fs : p.dir = rolesDir /\ p.ext = "md"}

Listings(fs) ==
    {order \in [1..Cardinality(RoleFiles(fs)) -> RoleFiles(fs)] :
         \A i, j \in 1..Cardinality(RoleFiles(fs)) : order[i] = order[j] => i = j}

\* the texts of the role files
RoleTexts ==
    {<<DELIMITER, "alias: T", "agent_description: d",
       "responsibilities: content/responsibilities/*.md", "constitution: true",
       DELIMITER, "\n", "role", "\n">>,
     <<DELIMITER, "alias: A  t", "context: content/responsibilities/r.md",
       "refs: plugins/praxis/agents/*.md", DELIMITER, "role">>,
     <<DELIMITER, "alias: t", "constitution: content/context/constitution/*.md",
       DELIMITER, "other role">>,
     <<DELIMITER, "title: x", DELIMITER, "role">>,
     <<DELIMITER, MalformedLine, DELIMITER, "role">>,
     <<"role">>}

RolePaths ==
    {[dir |-> rolesDir, stem |-> <<"a">>, ext |-> "md"],
     [dir |-> rolesDir, stem |-> <<"t">>, ext |-> "md"]}

\* the files of the project that are no role: a README among the roles, a
\* responsibility with a header, two constitution files and the README next to
\* them
FixedFiles ==
    [dir |-> rolesDir, stem |-> <<"R", "E", "A", "D", "M", "E">>, ext |-> "md"]
        :> <<DELIMITER, "alias: T", DELIMITER, "readme">>
    @@ [dir |-> responsibilitiesDir, stem |-> <<"r">>, ext |-> "md"]
        :> <<DELIMITER, "owner: x", DELIMITER, "\n", "responsibility", "\n">>
    @@ [dir |-> constitutionDir, stem |-> <<"1">>, ext |-> "md"]
        :> <<"constitution">>
    @@ [dir |-> constitutionDir, stem |-> <<"a">>, ext |-> "md"]
        :> <<DELIMITER, "owner: x", DELIMITER, "\n", "principles">>
    @@ [dir |-> constitutionDir, stem |-> <<"R", "E", "A", "D", "M", "E">>, ext |-> "md"]
        :> <<"constitution readme">>

\* the aliases given to `praxis compile --alias`
TargetAliases == {<<"T">>, <<"a", " ", " ", "t">>, <<"1">>}

NoEntry ==
    [op |-> "none", file |-> NoPath, result |-> "", path |-> NoPath, out |-> <<>>,
     compiled |-> 0, written |-> <<>>]

InitCompile ==
    /\ RestIdle
    /\ CacheIdle
    /\ ConcIdle
    /\ BatchIdle
    /\ PathIdle
    /\ watcher = <<>>
    /\ summ = <<>>
    /\ cli = <<>>
    /\ ob = <<>>
    /\ \E texts \in [RolePaths -> RoleTexts] :
           rc = [fs |-> texts @@ FixedFiles, log |-> <<>>]

\* the log entry of a compile
CompileEntry(op, r) ==
    [NoEntry EXCEPT !.op = op, !.file = r.file, !.result = r.result,
                    !.path = r.path, !.out = r.out]

Logged(fs, entry) ==
    /\ Len(rc.log) < MaxOps
    /\ rc' = [fs |-> fs, log |-> Append(rc.log, entry)]
    /\ UNCHANGED <<restVars, cacheVars, concVars, batchVars, pathVars, watcher, summ, cli, ob>>

CompileDone(op, r) == Logged(r.fs, CompileEntry(op, r))

\* compiler.compile(roleFile)
Compile == \E roleFile \in RolePaths : CompileDone("compile", compile(rc.fs, roleFile, NoPath))

\* praxis compile --alias <name>
CompileOne ==
    \E targetAlias \in TargetAliases, roleFiles \in Listings(rc.fs) :
        CompileDone("compileOne",
                    compileFound(rc.fs, findRoleByAlias(rc.fs, roleFiles, targetAlias)))

CompileAllDone(acc) ==
    Logged(acc.fs,
           [NoEntry EXCEPT !.op = "compileAll", !.file = acc.at,
                           !.result = IF acc.thrown THEN "throw" ELSE "done",
                           !.compiled = acc.compiled, !.written = acc.written])

\* compiler.compileAll()
CompileAll ==
    \E roleFiles \in Listings(rc.fs) : CompileAllDone(compileAll(LoopStart(rc.fs), roleFiles))

\* somebody edits a role file
EditRole ==
    \E roleFile \in RolePaths, text \in RoleTexts :
        /\ rc.fs[roleFile] # text
        /\ Logged(writeFileSync(rc.fs, roleFile, text),
                  [NoEntry EXCEPT !.op = "edit", !.file = roleFile])

NextCompile == Compile \/ CompileOne \/ CompileAll \/ EditRole

SpecCompile == InitCompile /\ [][NextCompile]_vars

-----------------------------------------------------------------------------
(* Claims about the cache API *)

\* a text with its control characters removed and its double quotes turned into
\* single quotes
CleanText(text) ==
    LET kept == SelectSeq(text, LAMBDA c : c # "ctl")
    IN  [i \in 1..Len(kept) |-> IF kept[i] = "dq" THEN "sq" ELSE kept[i]]

CleanVerdict(r) ==
    [compliant |-> r.compliant, issues |-> [i \in 1..Len(r.issues) |-> CleanText(r.issues[i])],
     reason |-> CleanText(r.reason), severity |-> r.severity]

\* the last call was read({p, fp}) right after write({p, fp, r, m})
ReadRightAfterWrite ==
    /\ last.op = "read"
    /\ last.after.op = "write"
    /\ last.after.path = last.path
    /\ last.after.fp = last.fp

\* C1 as stated: write({p, fp, r, m}) immediately followed by read({p, fp})
\* returns a verdict equal to r.
C1_ReadReturnsWrittenVerdict ==
    ReadRightAfterWrite => last.ret = Found(last.after.result)

\* C1 amended: a write that met no I/O failure, immediately followed by
\* read({p, fp}), returns r with the control characters stripped from and the
\* double quotes replaced by single quotes in its reason and its issue strings
\* (the compliant flag and the severity are r's).
C1_ReadReturnsSanitizedVerdict ==
    (ReadRightAfterWrite /\ last.after.ok)
        => last.ret = Found(CleanVerdict(last.after.result))

C1_Witness ==
    /\ ReadRightAfterWrite
    /\ last.after.ok
    /\ last.ret.found
    /\ last.ret.value # last.after.result

\* the last call was read({p, fp'}) on a current-version entry stored with
\* another fingerprint
StaleRead ==
    /\ last.op = "read"
    /\ last.pre.exists
    /\ JsonParse(last.pre.bytes).kind = "entry"
    /\ JsonParse(last.pre.bytes).data.version = CACHE_VERSION
    /\ JsonParse(last.pre.bytes).data.content_hash # last.fp

\* C2: read({p, fp'}) on an entry written with fp # fp' returns absent and leaves
\* the file as it was: readRaw({p}) then returns the whole entry with fingerprint
\* fp, and read({p, fp}) the stored verdict.
C2_StaleReadLeavesEntry ==
    StaleRead =>
        LET stored == JsonParse(last.pre.bytes).data
        IN  /\ last.ret = Absent
            /\ FileAt(files, cachePathFor(Mgr, last.path)) = last.pre
            /\ readRaw(files, Mgr, last.path) = Found(stored)
            /\ read(files, Mgr, last.path, stored.content_hash).ret = Found(stored.result)

C2_Witness == StaleRead /\ last.ret = Absent

\* the last call was read on a cache file whose content is no JSON
CorruptRead ==
    /\ last.op = "read"
    /\ last.pre.exists
    /\ JsonParse(last.pre.bytes).kind = "fail"

IsCompleteEntry(bytes) ==
    /\ JsonParse(bytes).kind = "entry"
    /\ JsonParse(bytes).data.version = CACHE_VERSION

C5_NeverTornLastWriterWins ==
    /\ ConcFile.exists => ConcFile.bytes \in {WriterJson(w) : w \in Writers}
    /\ (\A w \in Writers : wr[w].pc = "done")
          => ConcFile = [exists |-> TRUE, bytes |-> WriterJson(commits[Len(commits)])]

-----------------------------------------------------------------------------
(* Claims about batch validation *)

\* the last validation went through the cache, for a document that an earlier
\* validation through the cache gave a verdict
Revalidated == hist.ev # NoEvent /\ cfg.useCache /\ hist.ev.prev.validated

TextsUnchanged ==
    /\ hist.ev.docText = hist.ev.prev.docText
    /\ hist.ev.specText = hist.ev.prev.specText

EntryFingerprintIs(key, fp) ==
    LET raw == readRaw(files, Mgr, DocPath(key[1], key[2]))
    IN  raw.found /\ raw.value.content_hash = fp

\* C6: when a document is validated twice through the cache, the second
\* validation is a hit that returns the stored verdict without a classifier call
\* if neither the document text nor the specification text changed in between,
\* and a miss that calls the classifier and overwrites the document's entry if
\* either text changed.
C6_SecondValidationHitIffUnchanged ==
    Revalidated =>
        IF TextsUnchanged
        THEN hist.ev.hit /\ ~hist.ev.classified /\ hist.ev.result = hist.ev.prev.stored
        ELSE /\ ~hist.ev.hit
             /\ hist.ev.classified
             /\ ~hist.ev.threw =>
                    EntryFingerprintIs(hist.ev.doc,
                                       contentHash(hist.ev.docText, hist.ev.specText))

\* the same statement with "changed" read as "the concatenation of the two texts
\* changed", which is what the fingerprint can tell
SecondValidationHitIffSameConcatenation ==
    Revalidated =>
        IF hist.ev.docText \o hist.ev.specText
               = hist.ev.prev.docText \o hist.ev.prev.specText
        THEN hist.ev.hit /\ ~hist.ev.classified /\ hist.ev.result = hist.ev.prev.stored
        ELSE /\ ~hist.ev.hit
             /\ hist.ev.classified
             /\ ~hist.ev.threw =>
                    EntryFingerprintIs(hist.ev.doc,
                                       hist.ev.docText \o hist.ev.specText)

IsErrorResult(r) == ~r.compliant /\ r.severity = "error"

\* C7: with fail-fast enabled no document is validated after the first result
\* that is non-compliant with error severity: such a result is the last of the
\* results and stopped is true; a warning never stops the run; with fail-fast
\* disabled stopped is never true.
C7_FailFastStopsOnFirstError ==
    /\ cfg.failFast =>
           \A i \in 1..Len(bv.results) :
               IsErrorResult(bv.results[i]) => i = Len(bv.results) /\ bv.stoppedEarly
    /\ bv.stoppedEarly =>
           /\ cfg.failFast
           /\ bv.results # <<>>
           /\ IsErrorResult(bv.results[Len(bv.results)])
           /\ bv.pc = "done"

C7_Witness ==
    /\ cfg.failFast
    /\ bv.stoppedEarly
    /\ Len(bv.results) = 2
    /\ Len(bv.docs) = 3
    /\ ~bv.results[1].compliant
    /\ bv.results[1].severity = "warning"

\* result i of the run is the one result of document i, and it is a synthetic
\* error result
OneSyntheticResultAt(i) ==
    /\ i <= Len(bv.results)
    /\ Len(bv.results) = bv.pos - 1
    /\ bv.results[i].path = DocPath(bv.docs[i].dir, bv.docs[i].name)
    /\ ~bv.results[i].compliant
    /\ bv.results[i].severity = "error"
    /\ bv.results[i].issues[1][1] = "Validation failed: "

\* the results that are not marked as thrown are verdicts of the classifier or
\* of the cache
OthersAreVerdicts ==
    \A i \in 1..Len(bv.results) :
        i \notin hist.threw => bv.results[i].issues = <<>>
                               \/ bv.results[i].issues[1][1] # "Validation failed: "

\* C8 as stated: if validating one document throws, the run does not reject,
\* exactly one synthetic non-compliant error result is recorded for that
\* document only, and the remaining documents of the batch are still validated.
C8_ThrowNeverEndsBatch ==
    /\ OthersAreVerdicts
    /\ \A i \in hist.threw :
           /\ bv.pc # "rejected"
           /\ OneSyntheticResultAt(i)
           /\ bv.pc = "done" => Len(bv.results) = Len(bv.docs)

\* C8: if validating one document throws, the run does not reject and exactly
\* one synthetic non-compliant error result is recorded for that document only;
\* the remaining documents are still validated when fail-fast is disabled, and
\* with fail-fast enabled the synthetic result ends the run as any error does.
C8_ThrowRecordedAsErrorResult ==
    /\ OthersAreVerdicts
    /\ \A i \in hist.threw :
           /\ bv.pc # "rejected"
           /\ OneSyntheticResultAt(i)
           /\ IF cfg.failFast
              THEN i = Len(bv.results) /\ bv.stoppedEarly /\ bv.pc = "done"
              ELSE bv.pc = "done" => Len(bv.results) = Len(bv.docs)

C8_Witness ==
    /\ ~cfg.failFast
    /\ bv.pc = "done"
    /\ 1 \in hist.threw
    /\ Len(bv.results) = 3
    /\ bv.results[2].compliant

-----------------------------------------------------------------------------
(* Claims about orphan detection and cache paths *)

\* document d is on disk under one of the source directories
ExistsUnderSources(d, sources) ==
    /\ d \in DOMAIN disk
    /\ \E i \in 1..Len(sources) :
           /\ IsPrefix(ProjectRoot.segs \o sources[i], d.segs)
           /\ Len(d.segs) > Len(ProjectRoot.segs) + Len(sources[i])

Reported(cp) == \E o \in last.ret : o.file = cp

\* C9: orphanedCacheFiles(root, sources) reports a cache entry if and only if
\* the document it was written for no longer exists under any of the source
\* directories; an entry whose document exists is never reported, also when the
\* text of the document changed after the entry was written.
C9_OrphanIffDocumentMissing ==
    last.op = "orphans" =>
        \A cp \in DOMAIN files :
            Reported(cp) <=> ~ExistsUnderSources(owner[cp], last.sources)

\* the same for the entries of documents that a batch run validates
OrphanIffBatchDocumentMissing ==
    last.op = "orphans" =>
        \A cp \in DOMAIN files :
            owner[cp].segs[Len(owner[cp].segs)] \notin UnderscoreNames =>
                (Reported(cp) <=> ~ExistsUnderSources(owner[cp], last.sources))

\* C10: cachePathFor gives two document paths the same cache path only if they
\* denote the same source file, inside or outside the project root and with or
\* without a configured project root.
C10_CachePathInjective ==
    (calls # <<>> /\ calls.out # <<>>) =>
        (calls.out[1] = calls.out[2] => Resolve(calls.a) = Resolve(calls.b))

-----------------------------------------------------------------------------
(* Claims about readRaw *)

\* the last call was readRaw on a cache file that does not parse
RawReadOfCorruptFile ==
    /\ last.op = "readRaw"
    /\ last.pre.exists
    /\ JsonParse(last.pre.bytes).kind = "fail"

\* C11: readRaw({p}) never creates, modifies or deletes a file under the cache
\* root; on a cache file that does not parse it returns absent and the file is
\* still there with the same bytes.
C11_ReadRawChangesNothing ==
    last.op = "readRaw" =>
        /\ files = last.before
        /\ RawReadOfCorruptFile =>
               /\ last.ret = Absent
               /\ FileAt(files, cachePathFor(Mgr, last.path)) = last.pre

C11_Witness ==
    /\ RawReadOfCorruptFile
    /\ cachePathFor(Mgr, last.path) \in DOMAIN files

-----------------------------------------------------------------------------
(* Claims about the documents of a run *)

\* a validateAll run went through all its domains without a fail-fast stop
CompleteAllRun == bv # <<>> /\ bv.kind = "all" /\ bv.pc = "done" /\ ~bv.stoppedEarly

\* the non-excluded documents in a directory with a README.md at or below one
\* of the source roots
DocumentsUnderSources ==
    {d \in BatchDocs : \E i \in 1..Len(cfg.sources) : IsPrefix(cfg.sources[i], d[1])}

\* the results of the run that are for document d, validated against the
\* README.md of its own directory
ResultsFor(d) ==
    {i \in 1..Len(bv.results) : /\ bv.results[i].path = DocPath(d[1], d[2])
                                /\ bv.docs[i].readmePath = DocPath(d[1], "README")}

\* C12: in one validateAll run every non-excluded document is validated exactly
\* once, against the README.md of the one directory that contains it, also when
\* source roots nest inside one another.
C12_EachDocumentValidatedOnce ==
    CompleteAllRun =>
        /\ \A d \in DocumentsUnderSources : Cardinality(ResultsFor(d)) = 1
        /\ Len(bv.results) = Cardinality(DocumentsUnderSources)

\* the same with "exactly once" weakened to "at least once, and always against
\* the README.md of its own directory"
EachDocumentValidatedAgainstOwnReadme ==
    CompleteAllRun =>
        /\ \A d \in DocumentsUnderSources : ResultsFor(d) # {}
        /\ \A i \in 1..Len(bv.results) :
               \E d \in DocumentsUnderSources : i \in ResultsFor(d)

\* the results of the run that are no synthetic failure results
RealResults == Len(bv.results) - Cardinality(hist.threw)

\* C28: after every validateAll or validateType run cacheStats.hits +
\* cacheStats.misses is the number of results of that run that are no synthetic
\* failure results, also when one BatchValidator runs more than once.
C28_CacheStatsCountTheRun ==
    bv.pc = "done" => bv.cacheStats.hits + bv.cacheStats.misses = RealResults

\* during and after the first run of a BatchValidator the two counters add up
\* to the results that are no synthetic failure results
CacheStatsCountTheFirstRun ==
    bv.runs = 1 /\ bv.pc \in {"running", "done"} =>
        bv.cacheStats.hits + bv.cacheStats.misses = RealResults

-----------------------------------------------------------------------------
(* Claims about watch mode *)

IsChange(k) == watcher.log[k].kind = "change"

IsCompile(k) == watcher.log[k].kind = "compile"

\* C13: a burst of file-change events, each less than the debounce interval
\* after the one before, triggers exactly one recompile, and the recompile starts
\* only when the debounce interval has passed since the last event of the burst.
\* On the log: a recompile directly follows a change that is at least the
\* interval older; two changes with nothing in between are less than the
\* interval apart; and a change that ends the log is not older than the interval.
C13_OneRecompilePerBurst ==
    \A k \in 1..Len(watcher.log) :
        /\ IsCompile(k) =>
               /\ k > 1
               /\ IsChange(k - 1)
               /\ watcher.log[k].t >= watcher.log[k - 1].t + DebounceTicks
        /\ (IsChange(k) /\ k < Len(watcher.log) /\ IsChange(k + 1)) =>
               watcher.log[k + 1].t < watcher.log[k].t + DebounceTicks
        /\ (IsChange(k) /\ k = Len(watcher.log)) => watcher.now <= watcher.log[k].t + DebounceTicks

C13_Witness ==
    /\ Len(watcher.log) >= 5
    /\ IsChange(1) /\ IsChange(2) /\ IsChange(3)
    /\ watcher.log[3].t > watcher.log[1].t
    /\ IsCompile(4)
    /\ IsChange(5)

\* C27: in watch mode at most one recompile, one run of compileAll, is in
\* progress at any time: a change event that arrives while a recompile runs never
\* makes a second one start before the first has finished.
C27_AtMostOneRecompileRuns == Len(watcher.running) <= 1

\* two recompiles run at once only when the earlier one has been running for
\* the debounce interval or longer
RecompilesOverlapOnlyAfterDebounce ==
    \A i, j \in 1..Len(watcher.running) :
        i < j => watcher.running[j] >= watcher.running[i] + DebounceTicks

-----------------------------------------------------------------------------
(* Claims about summary() *)

Summarised == summ # <<>> /\ summ.out # NoSummary

ResultsOfType(t) == {i \in 1..Len(summ.results) : summ.results[i].type = t}

TypesOfResults == {summ.results[i].type : i \in 1..Len(summ.results)}

RECURSIVE SumOfTotals(_, _)
SumOfTotals(byType, types) ==
    IF types = {} THEN 0
    ELSE LET t == CHOOSE x \in types : TRUE
         IN  byType[t].total + SumOfTotals(byType, types \ {t})

\* total, compliant, warnings and errors count the results
OverallCountsRight ==
    /\ summ.out.total = Len(summ.results)
    /\ summ.out.compliant =
           Cardinality({i \in 1..Len(summ.results) : summ.results[i].compliant})
    /\ summ.out.warnings =
           Cardinality({i \in 1..Len(summ.results) :
                           ~summ.results[i].compliant /\ summ.results[i].severity = "warning"})
    /\ summ.out.errors =
           Cardinality({i \in 1..Len(summ.results) :
                           ~summ.results[i].compliant /\ summ.results[i].severity = "error"})

\* the domain of type t has a breakdown that counts its results
BreakdownRight(t) ==
    /\ t \in DOMAIN summ.out.byType
    /\ summ.out.byType[t].total = Cardinality(ResultsOfType(t))
    /\ summ.out.byType[t].total = summ.out.byType[t].compliant + summ.out.byType[t].issues

\* C14: after a run, summary() reports total, compliant, warnings and errors as
\* the counts of the results, and for every domain a breakdown whose total is its
\* compliant count plus its non-compliant count; the totals of the breakdowns
\* sum to the overall total.
C14_SummaryCountsResults ==
    Summarised =>
        /\ OverallCountsRight
        /\ \A t \in TypesOfResults : BreakdownRight(t)
        /\ SumOfTotals(summ.out.byType, DOMAIN summ.out.byType) = summ.out.total

\* the same for runs none of whose domains is named like a property of
\* Object.prototype; the overall counts are right in every run
SummaryCountsResultsOfPlainNames ==
    Summarised =>
        /\ OverallCountsRight
        /\ TypesOfResults \cap ObjectPrototypeNames = {} =>
               /\ \A t \in TypesOfResults : BreakdownRight(t)
               /\ SumOfTotals(summ.out.byType, DOMAIN summ.out.byType) = summ.out.total

WithoutSeverity ==
    {i \in 1..Len(summ.results) :
        ~summ.results[i].compliant /\ summ.results[i].severity = NoSeverity}

\* the three counts miss exactly the non-compliant results without a severity
SummaryTotalIsSumOfClassesAndUnclassed ==
    Summarised =>
        summ.out.total = summ.out.compliant + summ.out.warnings + summ.out.errors
                             + Cardinality(WithoutSeverity)

-----------------------------------------------------------------------------
(* Claims about the exit status *)

Exited == cli # <<>> /\ cli.exit # Running

SomeErrorResult ==
    \E i \in 1..Len(cli.results) :
        ~cli.results[i].compliant /\ cli.results[i].severity = "error"

SomeNonCompliantResult == \E i \in 1..Len(cli.results) : ~cli.results[i].compliant

\* C15: each validate mode (document, all, ci) exits non-zero exactly when a
\* result of error severity exists, so a run with only warnings exits zero; ci
\* --strict exits non-zero exactly when some result is non-compliant.
C15_ExitNonZeroIffError ==
    Exited =>
        IF cli.mode = "ciStrict"
        THEN cli.exit # 0 <=> SomeNonCompliantResult
        ELSE cli.exit # 0 <=> SomeErrorResult

\* the same for the modes that validate a batch
BatchExitNonZeroIffError ==
    (Exited /\ cli.mode # "document") =>
        IF cli.mode = "ciStrict"
        THEN cli.exit # 0 <=> SomeNonCompliantResult
        ELSE cli.exit # 0 <=> SomeErrorResult

-----------------------------------------------------------------------------
(* Claims about the output builder *)

Built == ob # <<>> /\ ob.out # NotBuilt

SectionOrder == <<"Role", "Responsibilities", "Constitution", "Context", "Reference">>

\* the items the builder holds for a section
ItemsOf(title) ==
    CASE title = "Role" -> IF ob.role \in {NoRole, ""} THEN <<>> ELSE <<ob.role>>
      [] title = "Responsibilities" -> ob.responsibilities
      [] title = "Constitution" -> ob.constitution
      [] title = "Context" -> ob.context
      [] title = "Reference" -> ob.reference

IsHeading(token) == \E i \in 1..Len(SectionOrder) : token = "# " \o SectionOrder[i]

\* the tokens a section with n items takes: heading, blank line, the items with
\* a separator between two of them, newline
SectionSize(n) == IF n = 0 THEN 0 ELSE 2 + n + (n - 1) + 1

RECURSIVE SumSizes(_)
SumSizes(k) == IF k = 0 THEN 0 ELSE SectionSize(Len(ItemsOf(SectionOrder[k]))) + SumSizes(k - 1)

PresentSections == SelectSeq(SectionOrder, LAMBDA title : Len(ItemsOf(title)) > 0)

\* the output without the agent frontmatter block and the newline after it
Body ==
    IF ~ob.agentMetadata THEN ob.out
    ELSE IF Len(ob.out) <= 4 THEN <<>>
    ELSE SubSeq(ob.out, 6, Len(ob.out))

\* C16: in every compiled output the sections that are present come in the order
\* Role, Responsibilities, Constitution, Context, Reference, whatever the order
\* of the add calls, and a section with no items contributes no heading and no
\* text.
C16_SectionsInFixedOrder ==
    Built =>
        /\ SelectSeq(ob.out, IsHeading)
               = [i \in 1..Len(PresentSections) |-> "# " \o PresentSections[i]]
        /\ Len(Body) = SumSizes(Len(SectionOrder))
                           + (IF PresentSections = <<>> THEN 0 ELSE Len(PresentSections) - 1)

C16_Witness ==
    /\ Built
    /\ ob.adds = <<"reference", "constitution", "role">>
    /\ ob.role = "r"
    /\ ob.reference = <<"x", "y">>
    /\ ob.constitution = <<"x">>
    /\ ob.responsibilities = <<>>

-----------------------------------------------------------------------------
(* Claims about the role compiler *)

\* the log of a compiler run holds at least one operation, and its last one
Ran == rc # <<>> /\ Len(rc.log) > 0

LastOp == rc.log[Len(rc.log)]

\* a compile of one role file that wrote its output
WroteOutput(e) == e.op \in {"compile", "compileOne"} /\ e.result = "written"

\* the i-th and the next operation compile the same role file, nothing in between
CompiledTwice(i) ==
    /\ i + 1 <= Len(rc.log)
    /\ WroteOutput(rc.log[i])
    /\ WroteOutput(rc.log[i + 1])
    /\ rc.log[i].file = rc.log[i + 1].file

\* a manifest with a pattern that names the directory of the compiled outputs
ReadsOutputDirectory(content) ==
    \E key \in {"responsibilities", "context", "refs"} :
        \E k \in 1..Len(array(content, key)) : array(content, key)[k].dir = agentsDir

\* C17: compiling the same unchanged document twice, no source file edited
\* between the two runs, produces byte-identical output, for every manifest,
\* those whose wildcard patterns match files of the output directory included.
C17_RecompileIsByteIdentical ==
    rc # <<>> =>
        \A i \in 1..Len(rc.log) : CompiledTwice(i) => rc.log[i].out = rc.log[i + 1].out

\* the same of the last two operations, for the manifests without a pattern into
\* the output directory
RecompileIsByteIdenticalOffOutputDirectory ==
    rc # <<>> =>
        \A i \in 1..Len(rc.log) :
            /\ i + 1 = Len(rc.log)
            /\ CompiledTwice(i)
            /\ ~ReadsOutputDirectory(rc.fs[rc.log[i].file])
            => rc.log[i].out = rc.log[i + 1].out

\* C18: parsing a document whose header payload is not valid YAML never raises:
\* compile, compileAll and the alias lookup go on with an empty manifest.
C18_MalformedHeaderNeverRaises ==
    rc # <<>> => \A i \in 1..Len(rc.log) : rc.log[i].result # "throw"

\* an operation raises only at a role file whose header payload does not load,
\* and every operation that reads such a file raises
RaisesExactlyOnMalformedHeader ==
    Ran =>
        /\ LastOp.result = "throw" => YamlThrows(extractRawYaml(rc.fs[LastOp.file]))
        /\ LastOp.op = "compile" /\ YamlThrows(extractRawYaml(rc.fs[LastOp.file]))
               => LastOp.result = "throw"

\* the role files compileAll compiles: not excluded, with an alias
Eligible(f) == ~isExcluded(f) /\ aliasOf(rc.fs[f]) # NoAlias

LacksAlias(f) ==
    /\ ~isExcluded(f)
    /\ ~YamlThrows(extractRawYaml(rc.fs[f]))
    /\ aliasOf(rc.fs[f]) = NoAlias

WrittenFor(f) == {k \in 1..Len(LastOp.written) : LastOp.written[k].file = f}

\* C19: a directory-wide compile never aborts because a document lacks the
\* alias: that document gets no output file, every other eligible document is
\* compiled, and the reported count is the number of documents for which an
\* output was written.
C19_CompileAllSkipsMissingAlias ==
    Ran /\ LastOp.op = "compileAll" =>
        /\ LastOp.result = "throw" => ~LacksAlias(LastOp.file)
        /\ \A f \in RoleFiles(rc.fs) : LacksAlias(f) => WrittenFor(f) = {}
        /\ LastOp.result = "done" =>
               \A f \in RoleFiles(rc.fs) :
                   Eligible(f) =>
                       /\ Cardinality(WrittenFor(f)) = 1
                       /\ defaultOutputPath(aliasOf(rc.fs[f])) \in DOMAIN rc.fs
        /\ LastOp.compiled = Len(LastOp.written)

\* a finished directory-wide compile over a document without alias and an
\* eligible one
C19_Witness ==
    /\ Ran
    /\ LastOp.op = "compileAll"
    /\ LastOp.result = "done"
    /\ \E f \in RoleFiles(rc.fs) : LacksAlias(f)
    /\ LastOp.compiled = 1

\* the alias of the role file the last operation compiled
LastAlias == aliasOf(rc.fs[LastOp.file])

\* C20: the output is written to the file named after the alias, lower-cased and
\* with every run of non-alphanumeric characters collapsed into one separator.
C20_OutputNameCollapsesRuns ==
    Ran /\ WroteOutput(LastOp) =>
        LastOp.path = [dir |-> agentsDir,
                       stem |-> replaceRuns(toLowerCase(LastAlias)), ext |-> "md"]

\* the output is written to the file named after the lower-cased alias
OutputNameIsLowerCasedAlias ==
    Ran /\ WroteOutput(LastOp) =>
        LastOp.path = [dir |-> agentsDir, stem |-> toLowerCase(LastAlias), ext |-> "md"]

\* the items of a section of a compiled output: the tokens after the heading
\* and its blank line, one separator between two items
SectionHeadings ==
    {"# Role", "# Responsibilities", "# Constitution", "# Context", "# Reference"}

RECURSIVE ItemsFrom(_, _)
ItemsFrom(out, i) ==
    IF i > Len(out) THEN <<>>
    ELSE IF out[i] \in SectionHeadings \cup {"\n"} THEN <<>>
    ELSE <<out[i]>> \o ItemsFrom(out, i + 2)

SectionItems(out, heading) ==
    IF \E i \in 1..Len(out) : out[i] = heading
    THEN ItemsFrom(out, (CHOOSE i \in 1..Len(out) : out[i] = heading) + 2)
    ELSE <<>>

\* the last operation compiled a role whose constitution field is a list of
\* patterns, or is `true`
CompiledConstitutionList ==
    /\ Ran
    /\ WroteOutput(LastOp)
    /\ HasKey(rc.fs[LastOp.file], "constitution")
    /\ LineOf(rc.fs[LastOp.file], "constitution") \in DOMAIN PatternOf

CompiledConstitutionTrue ==
    /\ Ran
    /\ WroteOutput(LastOp)
    /\ HasKey(rc.fs[LastOp.file], "constitution")
    /\ LineOf(rc.fs[LastOp.file], "constitution") \in TrueLines

\* C21: when the constitution field of a role is an explicit list of path or
\* glob patterns, the Constitution section of the compiled output holds the
\* bodies of exactly the matching files that exist.
C21_ConstitutionListIsInlined ==
    CompiledConstitutionList =>
        SectionItems(LastOp.out, "# Constitution")
            = bodiesOf(rc.fs, expandAll(rc.fs, array(rc.fs[LastOp.file], "constitution")))

\* a list of patterns in the constitution field gives no Constitution section
ConstitutionListIsIgnored ==
    CompiledConstitutionList => \A i \in 1..Len(LastOp.out) : LastOp.out[i] # "# Constitution"

\* the constitution files of the project: the markdown files of
\* content/context/constitution but _template.md and README.md
ConstitutionFiles ==
    {p \in DOMAIN rc.fs :
         /\ p.dir = constitutionDir
         /\ p.ext = "md"
         /\ p.stem \notin {<<"R", "E", "A", "D", "M", "E">>,
                           <<"_", "t", "e", "m", "p", "l", "a", "t", "e">>}}

-----------------------------------------------------------------------------
(* Claims about the glob expander *)

IsExcludedName(p) ==
    /\ p.ext = "md"
    /\ p.stem \in {<<"R", "E", "A", "D", "M", "E">>,
                   <<"_", "t", "e", "m", "p", "l", "a", "t", "e">>}

\* C23: for every wildcard pattern, at any directory depth, the list expand
\* returns holds no path whose file name is _template.md or README.md.
C23_ExpandNeverListsExcludedNames ==
    globs # <<>> /\ globs.done /\ isGlob(globs.pattern) =>
        \A i \in 1..Len(globs.out) : ~IsExcludedName(globs.out[i])

\* a wildcard over directories that matches a README two directories down and a
\* file beside it, which is listed
C23_Witness ==
    /\ globs # <<>>
    /\ globs.done
    /\ \E i \in 1..Len(globs.pattern.dir) : globs.pattern.dir[i] = "**"
    /\ \E p \in GlobMatches(globs.fs, globs.pattern) :
           IsExcludedName(p) /\ Len(p.dir) >= 2
    /\ Len(globs.out) > 0

\* expand returns every file the pattern matches but the excluded names, once
\* each, in the order of their path strings
ExpandListsMatchesSorted ==
    globs # <<>> /\ globs.done /\ isGlob(globs.pattern) =>
        /\ {globs.out[i] : i \in 1..Len(globs.out)}
               = {p \in GlobMatches(globs.fs, globs.pattern) : ~IsExcludedName(p)}
        /\ \A i, j \in 1..Len(globs.out) :
               i < j => CharsBefore(PathChars(globs.out[i]), PathChars(globs.out[j]))

-----------------------------------------------------------------------------
(* Claims about the fingerprint *)

Hashed == prints # <<>> /\ prints.done

\* C24: contentHash(d, s) is the same on every call with the same (d, s), and
\* changing the document text alone or the specification text alone changes it
\* (the digest taken as free of collisions).
C24_FingerprintStableAndSensitive ==
    Hashed =>
        /\ prints.again = prints.h1
        /\ prints.d1 # prints.d2 /\ prints.s1 = prints.s2 => prints.h1 # prints.h2
        /\ prints.d1 = prints.d2 /\ prints.s1 # prints.s2 => prints.h1 # prints.h2

\* two fingerprints of one specification text and two document texts, the one a
\* prefix of the other
C24_Witness ==
    /\ Hashed
    /\ prints.s1 = prints.s2
    /\ prints.s1 # <<>>
    /\ Len(prints.d1) < Len(prints.d2)
    /\ SubSeq(prints.d2, 1, Len(prints.d1)) = prints.d1
    /\ prints.h1 # prints.h2

\* C30: two pairs of document text and specification text that differ have
\* different fingerprints, also when the concatenation of the two texts is the
\* same (the digest taken as free of collisions).
C30_DifferentPairsDifferentFingerprints ==
    Hashed =>
        (<<prints.d1, prints.s1>> # <<prints.d2, prints.s2>> => prints.h1 # prints.h2)

\* two fingerprints are equal exactly when the concatenations are
FingerprintsEqualIffSameConcatenation ==
    Hashed => (prints.h1 = prints.h2 <=> prints.d1 \o prints.s1 = prints.d2 \o prints.s2)

-----------------------------------------------------------------------------
(* Claims about a read next to a write *)

\* both invocations have returned, and the writer wrote its entry
RaceOver ==
    /\ race # <<>>
    /\ race.pc = "done"
    /\ wr[RaceWriter].pc = "done"
    /\ commits = <<RaceWriter>>

\* C25: under concurrent invocations on one document the self-healing delete of
\* read never removes a complete, valid entry: when one invocation reads while
\* another writes the entry, the writer's entry is at the cache path after both.
C25_ReadNeverRemovesWrittenEntry ==
    RaceOver => ConcFile = [exists |-> TRUE, bytes |-> WriterJson(RaceWriter)]

\* the writer's entry is at the cache path unless the reader unlinked the path
WrittenEntryStaysUnlessReadUnlinks ==
    RaceOver /\ ~race.unlinked => ConcFile = [exists |-> TRUE, bytes |-> WriterJson(RaceWriter)]

\* a read returns nothing or a whole verdict, never one from a torn file
ReadNextToWriteReturnsWholeVerdict ==
    race # <<>> /\ race.pc = "done" /\ race.ret.found =>
        \E r \in Verdicts : race.ret.value = SanitizedResult(r)

-----------------------------------------------------------------------------
(* Claims about a write that fails *)

\* the step is a call of write that raised inside its try block
FailedWriteStep == last'.op = "write" /\ ~last'.ok /\ <<files, last>>' # <<files, last>>

\* the cache path of the document holds a complete entry before the step
HoldsStoredEntry(d) ==
    /\ cachePathFor(Mgr, d) \in DOMAIN files
    /\ IsCompleteEntry(files[cachePathFor(Mgr, d)])

\* C26: when write for a document fails, at directory creation or in the file
\* write, an entry stored before for that document is left as it was, and read
\* with its stored fingerprint still returns its verdict.
C26_FailedWriteKeepsStoredEntry ==
    [][FailedWriteStep /\ HoldsStoredEntry(last'.path) =>
          /\ cachePathFor(Mgr, last'.path) \in DOMAIN files'
          /\ files'[cachePathFor(Mgr, last'.path)] = files[cachePathFor(Mgr, last'.path)]
          /\ read(files', Mgr, last'.path,
                  JsonParse(files[cachePathFor(Mgr, last'.path)]).data.content_hash).ret.found]_vars

\* after a write that failed there is no file at the cache path of the document
FailedWriteLeavesNoFile ==
    last.op = "write" /\ ~last.ok => cachePathFor(Mgr, last.path) \notin DOMAIN files

=============================================================================
